---- MODULE Spec2Model ----
(***************************************************************************)
(* A model of the manage-gmail repository: the review server's rule store  *)
(* (email_review_server.py), the deletion batch (delete_gmails.py), the    *)
(* subject classifier (email_classification.py) and the decided-rule       *)
(* matcher (categorize_emails.py).                                         *)
(*                                                                         *)
(* Python strings are TLA+ strings; they are taken apart with Len and      *)
(* SubSeq, so lower(), strip() and the `in` operator are computed          *)
(* character by character as Python computes them.                         *)
(***************************************************************************)
EXTENDS Integers, Sequences, FiniteSets, TLC

VARIABLES
    \* the rule store of the review server (email_review_server.py)
    criteria,        \* criteria.json: the deleteNow collection (list of rules)
    criteria_1d,     \* criteria_1day_old.json: the deleteAfterGrace collection
    keep_criteria,   \* keep_criteria.json: the keep collection (safe list)
    keep_list,       \* logs/keep_list.json: the log of keep decisions
    resp,            \* the last HTTP response of the review server
    \* one call of a function: its arguments and what it returned
    arg,
    ret,
    \* delete_emails_by_criteria (delete_gmails.py): its locals and the mailbox
    dry_run,         \* the dry_run parameter
    pc,              \* where the batch stands
    crit_i,          \* the loop variable i: index of the current criterion
    query,           \* the query string of the current criterion
    current_retries,
    current_delay,
    success,
    response,        \* the last page the mailbox returned
    message_ids,
    statuses,
    deleted_counts,
    dry_run_counts,
    mailbox,         \* message id -> where the message is
    calls            \* the calls made on the mailbox so far

serverVars == <<criteria, criteria_1d, keep_criteria, keep_list, resp>>

callVars == <<arg, ret>>

batchVars == <<dry_run, pc, crit_i, query, current_retries, current_delay, success,
               response, message_ids, statuses, deleted_counts, dry_run_counts,
               mailbox, calls>>

vars == <<serverVars, callVars, batchVars>>

----------------------------------------------------------------------------
(* Python values and string operations.                                    *)

\* Python's None (a JSON null, or a key that .get() does not find).
None == "<None>"

\* A request whose body is not JSON: request.json is None.
NoBody == [no_json |-> TRUE]

\* A key that is absent from the request's JSON object.
Missing == "<Missing>"

\* Truthiness of an optional string: None and "" are falsy.
Truthy(v) == v # None /\ v # ""

UpperToLower ==
    [c \in {"A", "B", "C", "D", "E", "F", "G", "H", "I", "J", "K", "L", "M",
            "N", "O", "P", "Q", "R", "S", "T", "U", "V", "W", "X", "Y", "Z"} |->
        CASE c = "A" -> "a" [] c = "B" -> "b" [] c = "C" -> "c" [] c = "D" -> "d"
          [] c = "E" -> "e" [] c = "F" -> "f" [] c = "G" -> "g" [] c = "H" -> "h"
          [] c = "I" -> "i" [] c = "J" -> "j" [] c = "K" -> "k" [] c = "L" -> "l"
          [] c = "M" -> "m" [] c = "N" -> "n" [] c = "O" -> "o" [] c = "P" -> "p"
          [] c = "Q" -> "q" [] c = "R" -> "r" [] c = "S" -> "s" [] c = "T" -> "t"
          [] c = "U" -> "u" [] c = "V" -> "v" [] c = "W" -> "w" [] c = "X" -> "x"
          [] c = "Y" -> "y" [] c = "Z" -> "z"]

\* str.lower() on one character.
LowerChar(c) == IF c \in DOMAIN UpperToLower THEN UpperToLower[c] ELSE c

\* str.lower().
RECURSIVE lower(_)
lower(s) ==
    IF s = "" THEN ""
    ELSE LowerChar(SubSeq(s, 1, 1)) \o lower(SubSeq(s, 2, Len(s)))

\* Python's `needle in hay` on strings: the empty string is in every string.
StrIn(needle, hay) ==
    \E i \in 1..(Len(hay) - Len(needle) + 1) :
        SubSeq(hay, i, i + Len(needle) - 1) = needle

\* str.strip(): leading and trailing blanks removed.
RECURSIVE lstrip(_)
lstrip(s) ==
    IF s # "" /\ SubSeq(s, 1, 1) = " " THEN lstrip(SubSeq(s, 2, Len(s))) ELSE s

RECURSIVE rstrip(_)
rstrip(s) ==
    IF s # "" /\ SubSeq(s, Len(s), Len(s)) = " "
    THEN rstrip(SubSeq(s, 1, Len(s) - 1)) ELSE s

strip(s) == lstrip(rstrip(s))

\* s.split(sep) for a separator of one character.
Split(s, sep) ==
    LET at     == {i \in 1..Len(s) : SubSeq(s, i, i) = sep}
        nth(k) == CHOOSE i \in at : Cardinality({j \in at : j < i}) = k - 1
        n      == Cardinality(at)
    IN  [k \in 1..(n + 1) |->
            SubSeq(s, IF k = 1 THEN 1 ELSE nth(k - 1) + 1,
                      IF k = n + 1 THEN Len(s) ELSE nth(k) - 1)]

----------------------------------------------------------------------------
(* Bounds and the inputs the requests are drawn from.                      *)

\* The three rule files and the keep log together hold at most MaxRecords
\* entries: a request that would store more is not taken.
MaxRecords == 3

DomainInputs == {None, "", "s.co", "S.co", "s.co "}

SubjectInputs == {None, "", "sale"}

ExcludeInputs == {None}

CategoryInputs == {"PROMO"}

FileTypeInputs == {Missing, "criteria", "criteria_1d", "keep"}

----------------------------------------------------------------------------
(* email_review_server.py: the rule store.                                 *)

create_criteria_entry(domain, subject_pattern, exclude_subject) ==
    [email          |-> "",
     subdomain      |-> "",
     primaryDomain  |-> domain,
     subject        |-> IF Truthy(subject_pattern) THEN subject_pattern ELSE "",
     toEmails       |-> "",
     ccEmails       |-> "",
     excludeSubject |-> IF Truthy(exclude_subject) THEN exclude_subject ELSE ""]

is_duplicate_criteria(criteria_list, new_entry) ==
    \E k \in 1..Len(criteria_list) :
        /\ lower(criteria_list[k].primaryDomain) = lower(new_entry.primaryDomain)
        /\ lower(criteria_list[k].subject) = lower(new_entry.subject)

matches_criteria_pattern(entry, domain, subject_pattern) ==
    LET entry_domain  == lower(entry.primaryDomain)
        entry_subject == lower(entry.subject)
        domain_lower  == IF Truthy(domain) THEN lower(domain) ELSE ""
        subject_lower == IF Truthy(subject_pattern) THEN lower(subject_pattern) ELSE ""
    IN  /\ entry_domain = domain_lower
        /\ \/ entry_subject = "" \/ subject_lower = ""
           \/ StrIn(entry_subject, subject_lower)
           \/ StrIn(subject_lower, entry_subject)

\* The content of criteria.json after remove_from_criteria(domain, subject_pattern).
remove_from_criteria(file, domain, subject_pattern) ==
    SelectSeq(file, LAMBDA c : ~matches_criteria_pattern(c, domain, subject_pattern))

\* The value remove_from_criteria returns.
removed_count(file, domain, subject_pattern) ==
    Len(file) - Len(remove_from_criteria(file, domain, subject_pattern))

StoreSize == Len(criteria) + Len(criteria_1d) + Len(keep_criteria) + Len(keep_list)

\* A handler that raises: the except branch answers 500 and nothing is saved.
Error500(op) ==
    /\ resp' = [op |-> op, status |-> 500, success |-> FALSE]
    /\ UNCHANGED <<criteria, criteria_1d, keep_criteria, keep_list>>

\* As add_criteria, but without the test that a domain was given.
add_criteria_any_domain(data) ==
    IF data = NoBody THEN Error500("add-criteria")
    ELSE LET new_entry == create_criteria_entry(data.domain, data.subject_pattern,
                                                data.exclude_subject)
         IN  IF is_duplicate_criteria(criteria, new_entry) THEN
                 /\ resp' = [op |-> "add-criteria", status |-> 409, success |-> FALSE]
                 /\ UNCHANGED <<criteria, criteria_1d, keep_criteria, keep_list>>
             ELSE
                 /\ StoreSize < MaxRecords
                 /\ criteria' = Append(criteria, new_entry)
                 /\ resp' = [op |-> "add-criteria", status |-> 200, success |-> TRUE,
                             entry |-> new_entry,
                             total_criteria |-> Len(criteria) + 1]
                 /\ UNCHANGED <<criteria_1d, keep_criteria, keep_list>>

add_criteria(data) ==
    IF data = NoBody THEN Error500("add-criteria")
    ELSE IF ~Truthy(data.domain) THEN
        /\ resp' = [op |-> "add-criteria", status |-> 400, success |-> FALSE]
        /\ UNCHANGED <<criteria, criteria_1d, keep_criteria, keep_list>>
    ELSE LET new_entry == create_criteria_entry(data.domain, data.subject_pattern,
                                                data.exclude_subject)
         IN  IF is_duplicate_criteria(criteria, new_entry) THEN
                 /\ resp' = [op |-> "add-criteria", status |-> 409, success |-> FALSE]
                 /\ UNCHANGED <<criteria, criteria_1d, keep_criteria, keep_list>>
             ELSE
                 /\ StoreSize < MaxRecords
                 /\ criteria' = Append(criteria, new_entry)
                 /\ resp' = [op |-> "add-criteria", status |-> 200, success |-> TRUE,
                             entry |-> new_entry,
                             total_criteria |-> Len(criteria) + 1]
                 /\ UNCHANGED <<criteria_1d, keep_criteria, keep_list>>

add_criteria_1day(data) ==
    IF data = NoBody THEN Error500("add-criteria-1d")
    ELSE IF ~Truthy(data.domain) THEN
        /\ resp' = [op |-> "add-criteria-1d", status |-> 400, success |-> FALSE]
        /\ UNCHANGED <<criteria, criteria_1d, keep_criteria, keep_list>>
    ELSE LET new_entry == create_criteria_entry(data.domain, data.subject_pattern,
                                                data.exclude_subject)
         IN  IF is_duplicate_criteria(criteria_1d, new_entry) THEN
                 /\ resp' = [op |-> "add-criteria-1d", status |-> 409, success |-> FALSE]
                 /\ UNCHANGED <<criteria, criteria_1d, keep_criteria, keep_list>>
             ELSE
                 /\ StoreSize < MaxRecords
                 /\ criteria_1d' = Append(criteria_1d, new_entry)
                 /\ resp' = [op |-> "add-criteria-1d", status |-> 200, success |-> TRUE,
                             entry |-> new_entry,
                             total_criteria |-> Len(criteria_1d) + 1]
                 /\ UNCHANGED <<criteria, keep_criteria, keep_list>>

mark_keep(data) ==
    IF data = NoBody THEN Error500("mark-keep")
    ELSE IF ~Truthy(data.domain) THEN
        /\ resp' = [op |-> "mark-keep", status |-> 400, success |-> FALSE]
        /\ UNCHANGED <<criteria, criteria_1d, keep_criteria, keep_list>>
    ELSE LET removed    == removed_count(criteria, data.domain, data.subject_pattern)
             keep_entry == create_criteria_entry(data.domain, data.subject_pattern, None)
             added_to_keep == ~is_duplicate_criteria(keep_criteria, keep_entry)
             new_keep   == IF added_to_keep THEN Append(keep_criteria, keep_entry)
                           ELSE keep_criteria
             \* marked_at (datetime.now()) is left out of the log entry
             log_entry  == [domain |-> data.domain,
                            subject_pattern |-> data.subject_pattern,
                            category |-> data.category,
                            removed_from_delete |-> removed]
         IN  /\ StoreSize - removed + 1 + (IF added_to_keep THEN 1 ELSE 0) <= MaxRecords
             \* 1. remove from criteria.json
             /\ criteria' = remove_from_criteria(criteria, data.domain,
                                                 data.subject_pattern)
             \* 2. add to keep_criteria.json
             /\ keep_criteria' = new_keep
             \* 3. log to keep_list.json
             /\ keep_list' = Append(keep_list, log_entry)
             /\ resp' = [op |-> "mark-keep", status |-> 200, success |-> TRUE,
                         entry |-> keep_entry,
                         added_to_keep |-> added_to_keep,
                         total_protected |-> Len(new_keep),
                         removed_from_delete |-> removed]
             /\ UNCHANGED criteria_1d

get_stats ==
    /\ resp' = [op |-> "stats", status |-> 200, success |-> TRUE,
                criteria_count |-> Len(criteria),
                criteria_1day_count |-> Len(criteria_1d),
                keep_count |-> Len(keep_list)]
    /\ UNCHANGED <<criteria, criteria_1d, keep_criteria, keep_list>>

undo_last(data) ==
    IF data = NoBody THEN Error500("undo-last")
    ELSE LET file_type == IF data.file_type = Missing THEN "criteria"
                          ELSE data.file_type
             in_now    == file_type = "criteria"
             file      == IF in_now THEN criteria ELSE criteria_1d
         IN  IF file = <<>> THEN
                 /\ resp' = [op |-> "undo-last", status |-> 400, success |-> FALSE]
                 /\ UNCHANGED <<criteria, criteria_1d, keep_criteria, keep_list>>
             ELSE
                 /\ criteria' = IF in_now THEN SubSeq(file, 1, Len(file) - 1)
                                ELSE criteria
                 /\ criteria_1d' = IF in_now THEN criteria_1d
                                   ELSE SubSeq(file, 1, Len(file) - 1)
                 /\ resp' = [op |-> "undo-last", status |-> 200, success |-> TRUE,
                             removed |-> file[Len(file)],
                             remaining |-> Len(file) - 1]
                 /\ UNCHANGED <<keep_criteria, keep_list>>

AddBodies ==
    {NoBody} \cup [domain : DomainInputs, subject_pattern : SubjectInputs,
                   exclude_subject : ExcludeInputs]

KeepBodies ==
    {NoBody} \cup [domain : DomainInputs, subject_pattern : SubjectInputs,
                   category : CategoryInputs]

UndoBodies == {NoBody} \cup [file_type : FileTypeInputs]

AddCriteria ==
    /\ \E data \in AddBodies : add_criteria(data)
    /\ UNCHANGED <<callVars, batchVars>>

AddCriteria1Day ==
    /\ \E data \in AddBodies : add_criteria_1day(data)
    /\ UNCHANGED <<callVars, batchVars>>

MarkKeep ==
    /\ \E data \in KeepBodies : mark_keep(data)
    /\ UNCHANGED <<callVars, batchVars>>

GetStats ==
    /\ get_stats
    /\ UNCHANGED <<callVars, batchVars>>

UndoLast ==
    /\ \E data \in UndoBodies : undo_last(data)
    /\ UNCHANGED <<callVars, batchVars>>

NoResponse == [op |-> "none", status |-> 0, success |-> FALSE]

\* No function is being called.
CallIdle ==
    /\ arg = [fn |-> "none"]
    /\ ret = [fn |-> "none"]

\* The deletion batch is not running.
BatchIdle ==
    /\ dry_run = FALSE
    /\ pc = "idle"
    /\ crit_i = 0
    /\ query = ""
    /\ current_retries = 0
    /\ current_delay = 0
    /\ success = FALSE
    /\ response = [messages |-> <<>>]
    /\ message_ids = <<>>
    /\ statuses = <<>>
    /\ deleted_counts = <<>>
    /\ dry_run_counts = <<>>
    /\ mailbox = {}
    /\ calls = {}

\* The server starts with no rule file on disk: load_json_file returns [].
StoreEmpty ==
    /\ criteria = <<>>
    /\ criteria_1d = <<>>
    /\ keep_criteria = <<>>
    /\ keep_list = <<>>
    /\ resp = NoResponse

Init == StoreEmpty /\ CallIdle /\ BatchIdle

Next ==
    \/ AddCriteria
    \/ AddCriteria1Day
    \/ MarkKeep
    \/ GetStats
    \/ UndoLast

Spec == Init /\ [][Next]_vars

----------------------------------------------------------------------------
(* One request handled on rule files of any content.                       *)

RequestFiles == {<<>>, <<create_criteria_entry("s.co", "", None)>>}

InitRequest ==
    /\ criteria \in RequestFiles
    /\ criteria_1d \in RequestFiles
    /\ keep_criteria \in RequestFiles
    /\ keep_list = <<>>
    /\ resp = NoResponse
    /\ arg \in [fn : {"add_criteria", "add_criteria_1day"}, data : AddBodies,
                before : {<<criteria, criteria_1d, keep_criteria, keep_list>>}]
               \cup [fn : {"mark_keep"}, data : KeepBodies,
                     before : {<<criteria, criteria_1d, keep_criteria, keep_list>>}]
    /\ ret = [fn |-> "none"]
    /\ BatchIdle

HandleAddCriteria ==
    /\ arg.fn = "add_criteria"
    /\ ret.fn = "none"
    /\ add_criteria(arg.data)
    /\ ret' = [fn |-> "handled"]
    /\ UNCHANGED <<arg, batchVars>>

HandleAddCriteria1Day ==
    /\ arg.fn = "add_criteria_1day"
    /\ ret.fn = "none"
    /\ add_criteria_1day(arg.data)
    /\ ret' = [fn |-> "handled"]
    /\ UNCHANGED <<arg, batchVars>>

HandleMarkKeep ==
    /\ arg.fn = "mark_keep"
    /\ ret.fn = "none"
    /\ mark_keep(arg.data)
    /\ ret' = [fn |-> "handled"]
    /\ UNCHANGED <<arg, batchVars>>

NextRequest ==
    \/ HandleAddCriteria
    \/ HandleAddCriteria1Day
    \/ HandleMarkKeep

SpecRequest == InitRequest /\ [][NextRequest]_vars

----------------------------------------------------------------------------
(* An undo-last request, alone or right after an add request, on rule      *)
(* files of any content.                                                   *)

InitUndo ==
    /\ criteria \in RequestFiles
    /\ criteria_1d \in RequestFiles
    /\ keep_criteria \in RequestFiles
    /\ keep_list = <<>>
    /\ resp = NoResponse
    /\ arg \in [fn : {"add_criteria", "add_criteria_1day"}, data : AddBodies,
                undo : UndoBodies,
                before : {<<criteria, criteria_1d, keep_criteria, keep_list>>}]
    /\ ret = [fn |-> "none"]
    /\ BatchIdle

AddBeforeUndo ==
    /\ ret.fn = "none"
    /\ IF arg.fn = "add_criteria" THEN add_criteria(arg.data)
       ELSE add_criteria_1day(arg.data)
    /\ ret' = [fn |-> "added", success |-> resp'.success]
    /\ UNCHANGED <<arg, batchVars>>

\* ret keeps the files as the request found them.
HandleUndoLast ==
    /\ ret.fn \in {"none", "added"}
    /\ undo_last(arg.undo)
    /\ ret' = [fn |-> "undone",
               after_add |-> (ret.fn = "added" /\ ret.success),
               files |-> <<criteria, criteria_1d, keep_criteria, keep_list>>]
    /\ UNCHANGED <<arg, batchVars>>

NextUndo ==
    \/ AddBeforeUndo
    \/ HandleUndoLast

SpecUndo == InitUndo /\ [][NextUndo]_vars

----------------------------------------------------------------------------
(* email_review_server.py under app.run(): the development server hands    *)
(* each request to a thread of its own, and the handlers take no lock.     *)
(* A handler reads the rule file in one step and writes it in a later one. *)

Threads == {1, 2}

\* The requests in flight: add-criteria and undo-last on criteria.json.
ConcurrentRequests ==
    {[op |-> "add-criteria", data |-> [domain |-> d, subject_pattern |-> s,
                                       exclude_subject |-> None]] :
        d \in {"s.co", "n.co"}, s \in {"", "sale"}}
    \cup {[op |-> "undo-last", data |-> [file_type |-> "criteria"]]}

ConcurrentFiles ==
    {<<>>,
     <<create_criteria_entry("s.co", "", None)>>,
     <<create_criteria_entry("x.co", "", None), create_criteria_entry("s.co", "", None)>>}

InitConcurrent ==
    /\ criteria \in ConcurrentFiles
    /\ arg \in [fn : {"requests"}, requests : [Threads -> ConcurrentRequests],
                file : {criteria}]
    /\ ret = [fn |-> "threads",
              threads |-> [t \in Threads |-> [at |-> "start", local |-> <<>>, status |-> 0]]]
    /\ criteria_1d = <<>>
    /\ keep_criteria = <<>>
    /\ keep_list = <<>>
    /\ resp = NoResponse
    /\ BatchIdle

\* The thread is moved on; the other threads stay where they are.
ThreadStep(t, at, local, status) ==
    ret' = [ret EXCEPT !.threads[t] = [at |-> at, local |-> local, status |-> status]]

\* add_criteria up to load_json_file(CRITERIA_FILE).
AddCriteriaLoad(t) ==
    /\ arg.requests[t].op = "add-criteria"
    /\ ret.threads[t].at = "start"
    /\ IF ~Truthy(arg.requests[t].data.domain)
       THEN ThreadStep(t, "done", <<>>, 400)
       ELSE ThreadStep(t, "loaded", criteria, 0)
    /\ UNCHANGED <<serverVars, arg, batchVars>>

\* add_criteria from the duplicate test to save_json_file and the response.
AddCriteriaSave(t) ==
    /\ arg.requests[t].op = "add-criteria"
    /\ ret.threads[t].at = "loaded"
    /\ LET data == arg.requests[t].data
           new_entry == create_criteria_entry(data.domain, data.subject_pattern,
                                              data.exclude_subject)
           local == ret.threads[t].local
       IN  IF is_duplicate_criteria(local, new_entry)
           THEN /\ ThreadStep(t, "done", local, 409)
                /\ criteria' = criteria
           ELSE /\ ThreadStep(t, "done", Append(local, new_entry), 200)
                /\ criteria' = Append(local, new_entry)
    /\ UNCHANGED <<criteria_1d, keep_criteria, keep_list, resp, arg, batchVars>>

\* undo_last up to load_json_file(filepath).
UndoLastLoad(t) ==
    /\ arg.requests[t].op = "undo-last"
    /\ ret.threads[t].at = "start"
    /\ ThreadStep(t, "loaded", criteria, 0)
    /\ UNCHANGED <<serverVars, arg, batchVars>>

\* undo_last from the emptiness test to save_json_file and the response.
UndoLastSave(t) ==
    /\ arg.requests[t].op = "undo-last"
    /\ ret.threads[t].at = "loaded"
    /\ LET local == ret.threads[t].local
       IN  IF local = <<>>
           THEN /\ ThreadStep(t, "done", local, 400)
                /\ criteria' = criteria
           ELSE /\ ThreadStep(t, "done", SubSeq(local, 1, Len(local) - 1), 200)
                /\ criteria' = SubSeq(local, 1, Len(local) - 1)
    /\ UNCHANGED <<criteria_1d, keep_criteria, keep_list, resp, arg, batchVars>>

NextConcurrent ==
    \E t \in Threads :
        \/ AddCriteriaLoad(t)
        \/ AddCriteriaSave(t)
        \/ UndoLastLoad(t)
        \/ UndoLastSave(t)

SpecConcurrent == InitConcurrent /\ [][NextConcurrent]_vars

----------------------------------------------------------------------------
(* remove_from_criteria called on a criteria.json of any content.          *)

\* A rule list handed to a function under test holds at most MaxFile rules.
MaxFile == 2

SeqsUpTo(S, n) == UNION {[1..k -> S] : k \in 0..n}

\* A rule as the rule files store it: the seven keys, all strings.
Rule(email, domain, subject) ==
    [email          |-> email,
     subdomain      |-> "",
     primaryDomain  |-> domain,
     subject        |-> subject,
     toEmails       |-> "",
     ccEmails       |-> "",
     excludeSubject |-> ""]

RemoveRules ==
    {Rule("", d, f) : d \in {"s.co", "S.co", "s.co ", "n.co"},
                      f \in {"", "sale", "Big Sale", "otp"}}
    \cup {Rule("a@s.co", "", "")}

RemoveDomainInputs == {None, "", "s.co", "S.co", "n.co"}

RemoveSubjectInputs == {None, "", "sale", "Big Sale", "SALE!"}

InitRemove ==
    /\ criteria \in SeqsUpTo(RemoveRules, MaxFile)
    /\ arg \in [fn : {"remove_from_criteria"}, file : {criteria},
                 domain : RemoveDomainInputs,
                 subject_pattern : RemoveSubjectInputs]
    /\ ret = [fn |-> "none"]
    /\ criteria_1d = <<>>
    /\ keep_criteria = <<>>
    /\ keep_list = <<>>
    /\ resp = NoResponse
    /\ BatchIdle

RemoveFromCriteria ==
    /\ arg.fn = "remove_from_criteria"
    /\ ret.fn = "none"
    /\ criteria' = remove_from_criteria(criteria, arg.domain, arg.subject_pattern)
    /\ ret' = [fn |-> "remove_from_criteria",
               value |-> removed_count(criteria, arg.domain, arg.subject_pattern)]
    /\ UNCHANGED <<criteria_1d, keep_criteria, keep_list, resp, arg, batchVars>>

NextRemove == RemoveFromCriteria

SpecRemove == InitRemove /\ [][NextRemove]_vars

----------------------------------------------------------------------------
(* categorize_emails.py: the decided-rule match.                           *)

matches_any_criteria(domain, subject, criteria_list) ==
    LET domain_lower  == IF Truthy(domain) THEN lower(domain) ELSE ""
        subject_lower == IF Truthy(subject) THEN lower(subject) ELSE ""
    IN  \E k \in 1..Len(criteria_list) :
            LET c_domain  == lower(criteria_list[k].primaryDomain)
                c_subject == lower(criteria_list[k].subject)
            IN  /\ c_domain # ""
                /\ StrIn(c_domain, domain_lower)
                /\ (c_subject = "" \/ StrIn(c_subject, subject_lower))

MatchRules ==
    {Rule("", d, f) : d \in {"s.co", "S.co", "s.co "}, f \in {"", "sale"}}
    \cup {Rule("a@s.co", "", ""), Rule("a@s.co", "", "sale")}

MatchDomainInputs == {None, "", "s.co", "news.co", "n.co"}

MatchSubjectInputs == {None, "", "Big Sale", "otp"}

InitMatch ==
    /\ arg \in [fn : {"matches_any_criteria"},
                 domain : MatchDomainInputs,
                 subject : MatchSubjectInputs,
                 criteria_list : SeqsUpTo(MatchRules, MaxFile)]
    /\ ret = [fn |-> "none"]
    /\ StoreEmpty
    /\ BatchIdle

MatchesAnyCriteria ==
    /\ arg.fn = "matches_any_criteria"
    /\ ret.fn = "none"
    /\ ret' = [fn |-> "matches_any_criteria",
               value |-> matches_any_criteria(arg.domain, arg.subject,
                                              arg.criteria_list)]
    /\ UNCHANGED <<serverVars, arg, batchVars>>

NextMatch == MatchesAnyCriteria

SpecMatch == InitMatch /\ [][NextMatch]_vars

----------------------------------------------------------------------------
(* email_classification.py: the subject classifier.                        *)

\* The category table; the icon of a category is left out.
CATEGORIES ==
    "PROMO" :>
        [color |-> "#28a745", bg_color |-> "#d4edda",
         description |-> "Promotional - likely safe to delete",
         keywords |->
            <<"sale", "% off", "deal", "save", "free", "offer", "discount",
              "webinar", "newsletter", "digest", "trending", "recommended",
              "treating you to", "qualify for", "Fitbit", "smart scale",
              "limited time", "expires", "don't miss", "last chance",
              "exclusive", "special offer", "promo", "coupon", "savings",
              "clearance", "flash sale", "black friday", "cyber monday",
              "holiday sale", "end of season", "reward", "bonus",
              "gift card", "earn points", "member benefit", "upgrade now",
              "try free", "get started", "join now", "sign up today",
              "act now", "hurry", "today only", "this week only",
              "while supplies last">>]
    @@ "NEWSLETTER" :>
        [color |-> "#17a2b8", bg_color |-> "#d1ecf1",
         description |-> "Newsletter - usually safe to delete",
         keywords |->
            <<"newsletter", "weekly update", "daily digest",
              "monthly roundup", "week in review", "news at", "what's new",
              "latest from", "insights", "tips and tricks", "blog post",
              "new article", "market outlook", "industry news",
              "tech news">>]
    @@ "ALERT" :>
        [color |-> "#dc3545", bg_color |-> "#f8d7da",
         description |-> "Alert - important, keep",
         keywords |->
            <<"alert", "transaction", "payment received", "payment made",
              "payment scheduled", "payment drafted", "payment confirmed",
              "account activity", "unusual activity", "fraud",
              "suspicious">>]
    @@ "RECEIPT" :>
        [color |-> "#dc3545", bg_color |-> "#f8d7da",
         description |-> "Receipt - keep for records",
         keywords |->
            <<"receipt", "invoice", "your order", "order confirmed",
              "order number", "purchase", "payment confirmation", "billing",
              "charged", "subscription confirmed">>]
    @@ "STATEMENT" :>
        [color |-> "#dc3545", bg_color |-> "#f8d7da",
         description |-> "Statement - important financial document",
         keywords |->
            <<"statement", "account update", "form 16", "tds", "gst",
              "tax certificate", "annual report", "quarterly report",
              "account summary", "balance", "eStatement", "e-statement",
              "combined statement", "monthly statement">>]
    @@ "SECURITY" :>
        [color |-> "#dc3545", bg_color |-> "#f8d7da",
         description |-> "Security - important, keep",
         keywords |->
            <<"security alert", "verification", "otp", "sign in",
              "new login", "password", "authentication", "verify your",
              "confirm your identity", "two-factor", "2fa", "access code",
              "security code", "one-time", "suspicious sign-in">>]
    @@ "MEDICAL" :>
        [color |-> "#dc3545", bg_color |-> "#f8d7da",
         description |-> "Medical - important health info",
         keywords |->
            <<"mychart", "appointment", "doctor", "prescription", "health",
              "medical", "patient", "clinic", "hospital", "lab results",
              "test results", "diagnosis", "treatment", "pharmacy",
              "medication", "vaccine", "immunization",
              "explanation of benefits", "eob", "claim", "insurance claim">>]
    @@ "ORDER" :>
        [color |-> "#dc3545", bg_color |-> "#f8d7da",
         description |-> "Order/Shipping - keep for tracking",
         keywords |->
            <<"shipped", "delivered", "tracking", "out for delivery",
              "in transit", "delivery scheduled", "package", "shipment",
              "carrier", "fedex", "ups", "usps", "dhl", "on its way",
              "expected delivery", "order status", "dispatch">>]
    @@ "TRAVEL" :>
        [color |-> "#dc3545", bg_color |-> "#f8d7da",
         description |-> "Travel - keep booking info",
         keywords |->
            <<"flight", "boarding", "itinerary", "booking confirmation",
              "reservation", "check-in", "baggage", "gate", "departure",
              "arrival", "hotel", "car rental", "trip", "travel">>]
    @@ "MORTGAGE" :>
        [color |-> "#dc3545", bg_color |-> "#f8d7da",
         description |-> "Mortgage/Property - important financial",
         keywords |->
            <<"mortgage", "escrow", "property tax", "home loan",
              "interest rate", "loan payment", "refinance", "deed", "title",
              "homeowner", "hoa">>]
    @@ "UNKNOWN" :>
        [color |-> "#ffc107", bg_color |-> "#fff3cd",
         description |-> "Unknown - needs manual review",
         keywords |->
            <<>>]

\* The priority order turned round: the least urgent category first.
CATEGORY_PRIORITY_reversed ==
    <<"UNKNOWN", "PROMO", "NEWSLETTER", "STATEMENT", "RECEIPT", "ORDER",
      "MORTGAGE", "TRAVEL", "MEDICAL", "ALERT", "SECURITY">>

\* Priority order for classification (first match wins).
CATEGORY_PRIORITY ==
    <<"SECURITY", "ALERT", "MEDICAL", "TRAVEL", "MORTGAGE", "ORDER",
      "RECEIPT", "STATEMENT", "NEWSLETTER", "PROMO", "UNKNOWN">>

\* As FirstKeyword, but reporting the lower-cased form that was compared
\* instead of the keyword as the list spells it.
FirstKeyword_lowercased(cat_name, subject_lower) ==
    LET keywords == CATEGORIES[cat_name].keywords
        hits == {k \in 1..Len(keywords) : StrIn(lower(keywords[k]), subject_lower)}
    IN  IF hits = {} THEN None
        ELSE lower(keywords[CHOOSE k \in hits : \A h \in hits : k <= h])

\* The first keyword of the category, in list order, that occurs in the
\* lower-cased subject; None when no keyword of the category occurs.
FirstKeyword(cat_name, subject_lower) ==
    LET keywords == CATEGORIES[cat_name].keywords
        hits == {k \in 1..Len(keywords) : StrIn(lower(keywords[k]), subject_lower)}
    IN  IF hits = {} THEN None
        ELSE keywords[CHOOSE k \in hits : \A h \in hits : k <= h]

\* What classify_email returns for a category and the keyword that matched.
Classification(cat_name, keyword) ==
    [category        |-> cat_name,
     color           |-> CATEGORIES[cat_name].color,
     bg_color        |-> CATEGORIES[cat_name].bg_color,
     description     |-> CATEGORIES[cat_name].description,
     matched_keyword |-> keyword]

\* The loop over CATEGORY_PRIORITY from position p on.
RECURSIVE ClassifyFrom(_, _)
ClassifyFrom(p, subject_lower) ==
    IF p > Len(CATEGORY_PRIORITY) THEN Classification("UNKNOWN", None)
    ELSE IF CATEGORY_PRIORITY[p] = "UNKNOWN" THEN ClassifyFrom(p + 1, subject_lower)
    ELSE LET keyword == FirstKeyword(CATEGORY_PRIORITY[p], subject_lower)
         IN  IF keyword # None THEN Classification(CATEGORY_PRIORITY[p], keyword)
             ELSE ClassifyFrom(p + 1, subject_lower)

\* As classify_email, but an empty or missing subject is reported with an
\* empty matched keyword instead of None.
classify_email_empty_keyword(subject) ==
    IF ~Truthy(subject) THEN Classification("UNKNOWN", "")
    ELSE ClassifyFrom(1, lower(subject))

classify_email(subject) ==
    IF ~Truthy(subject) THEN Classification("UNKNOWN", None)
    ELSE ClassifyFrom(1, lower(subject))

\* A subject is made of at most MaxPieces pieces, joined by blanks.
MaxPieces == 2

SubjectPieces ==
    {"Flash SALE", "offerings", "Newsletter", "Security Alert", "OTP",
     "your order", "shipped", "doctor", "Fitbit", "eStatement", "hello",
     "Daily Digest"}

RECURSIVE JoinPieces(_)
JoinPieces(pieces) ==
    IF pieces = <<>> THEN ""
    ELSE IF Len(pieces) = 1 THEN pieces[1]
    ELSE pieces[1] \o " " \o JoinPieces(Tail(pieces))

ClassifySubjects ==
    {None} \cup {JoinPieces(ps) : ps \in SeqsUpTo(SubjectPieces, MaxPieces)}

InitClassify ==
    /\ arg \in [fn : {"classify_email"}, subject : ClassifySubjects]
    /\ ret = [fn |-> "none"]
    /\ StoreEmpty
    /\ BatchIdle

ClassifyEmail ==
    /\ arg.fn = "classify_email"
    /\ ret.fn = "none"
    /\ ret' = [fn |-> "classify_email", value |-> classify_email(arg.subject)]
    /\ UNCHANGED <<serverVars, arg, batchVars>>

NextClassify == ClassifyEmail

SpecClassify == InitClassify /\ [][NextClassify]_vars

----------------------------------------------------------------------------
(* categorize_emails.py: one analysis run, from the fetched emails to the   *)
(* clusters put before the user.                                           *)

\* subject[:50]
First50(s) == IF Len(s) <= 50 THEN s ELSE SubSeq(s, 1, 50)

\* An email as fetch_all_unread_emails records it: the sender's primary
\* domain, the subject and the category classify_email gives the subject.
EmailDetail(primaryDomain, subject) ==
    [primaryDomain |-> primaryDomain, subject |-> subject,
     category |-> classify_email(subject).category]

\* As AddToGroup, but an email joins a group only when that group is the
\* last one made; otherwise it starts a group of its own.
AddToGroup_adjacent(grouped, email) ==
    LET domain      == email.primaryDomain
        subject     == First50(email.subject)
        pattern_key == email.category \o ":" \o subject
        n           == Len(grouped)
    IN  IF n > 0 /\ grouped[n].domain = domain /\ grouped[n].pattern_key = pattern_key
        THEN [grouped EXCEPT ![n].count = @ + 1, ![n].emails = Append(@, email)]
        ELSE Append(grouped, [domain |-> domain, pattern_key |-> pattern_key,
                              subject_sample |-> subject, category |-> email.category,
                              count |-> 1, emails |-> <<email>>])

\* grouped[domain][pattern_key] after one more email.  grouped is kept as
\* the sequence of its patterns in the order the two nested loops over
\* grouped.items() and patterns.items() visit them: domains in the order
\* of their first email, the patterns of a domain in the order of theirs.
AddToGroup(grouped, email) ==
    LET domain      == email.primaryDomain
        subject     == First50(email.subject)
        pattern_key == email.category \o ":" \o subject
        same  == {k \in 1..Len(grouped) :
                     grouped[k].domain = domain /\ grouped[k].pattern_key = pattern_key}
        ofDom == {k \in 1..Len(grouped) : grouped[k].domain = domain}
        fresh == [domain |-> domain, pattern_key |-> pattern_key,
                  subject_sample |-> subject, category |-> email.category,
                  count |-> 1, emails |-> <<email>>]
    IN  IF same # {}
        THEN [k \in 1..Len(grouped) |->
                 IF k \in same
                 THEN [grouped[k] EXCEPT
                          !.subject_sample = IF @ = "" THEN subject ELSE @,
                          !.category = email.category,
                          !.count = @ + 1,
                          !.emails = Append(@, email)]
                 ELSE grouped[k]]
        ELSE IF ofDom = {} THEN Append(grouped, fresh)
        ELSE LET last == CHOOSE k \in ofDom : \A o \in ofDom : o <= k
             IN  SubSeq(grouped, 1, last) \o <<fresh>>
                 \o SubSeq(grouped, last + 1, Len(grouped))

RECURSIVE GroupFrom(_, _)
GroupFrom(grouped, email_details) ==
    IF email_details = <<>> THEN grouped
    ELSE GroupFrom(AddToGroup(grouped, Head(email_details)), Tail(email_details))

group_emails_by_pattern(email_details) == GroupFrom(<<>>, email_details)

\* As is_duplicate, but the stored rule is compared as it is written.
is_duplicate_stored_as_written(criteria_list, domain, subject) ==
    \E k \in 1..Len(criteria_list) :
        /\ criteria_list[k].primaryDomain = lower(domain)
        /\ criteria_list[k].subject = (IF Truthy(subject) THEN lower(subject) ELSE "")

\* The helper is_duplicate of auto_add_promo_to_criteria.
is_duplicate(criteria_list, domain, subject) ==
    \E k \in 1..Len(criteria_list) :
        /\ lower(criteria_list[k].primaryDomain) = lower(domain)
        /\ lower(criteria_list[k].subject) = (IF Truthy(subject) THEN lower(subject) ELSE "")

\* The helper create_entry of auto_add_promo_to_criteria.
create_entry(domain, subject) ==
    [email |-> "", subdomain |-> "", primaryDomain |-> domain, subject |-> subject,
     toEmails |-> "", ccEmails |-> "", excludeSubject |-> ""]

promo_categories == {"PROMO", "NEWSLETTER"}

\* The loop of auto_add_promo_to_criteria over the patterns from k on;
\* acc holds the criteria list and added_count.
RECURSIVE AutoAddFrom(_, _, _)
AutoAddFrom(k, grouped, acc) ==
    IF k > Len(grouped) THEN acc
    ELSE IF /\ grouped[k].category \in promo_categories
            /\ ~is_duplicate(acc.criteria, grouped[k].domain, grouped[k].subject_sample)
         THEN AutoAddFrom(k + 1, grouped,
                  [criteria |-> Append(acc.criteria,
                       create_entry(grouped[k].domain, grouped[k].subject_sample)),
                   added_count |-> acc.added_count + 1])
         ELSE AutoAddFrom(k + 1, grouped, acc)

\* The criteria list auto_add_promo_to_criteria leaves in criteria.json
\* and the count it returns.
auto_add_promo_to_criteria(file, grouped) ==
    AutoAddFrom(1, grouped, [criteria |-> file, added_count |-> 0])

\* load_existing_criteria: the two rule files the filter is given.
load_existing_criteria ==
    [criteria |-> criteria, keep_criteria |-> keep_criteria]

\* Whether filter_decided_emails takes the pattern for decided.
Decided(pattern, criteria_list, keep_list_rules) ==
    \/ matches_any_criteria(pattern.domain, pattern.subject_sample, criteria_list)
    \/ matches_any_criteria(pattern.domain, pattern.subject_sample, keep_list_rules)

RECURSIVE SumCounts(_)
SumCounts(patterns) ==
    IF patterns = <<>> THEN 0 ELSE Head(patterns).count + SumCounts(Tail(patterns))

filter_decided_emails(grouped, criteria_list, keep_list_rules) ==
    [filtered |-> SelectSeq(grouped,
                     LAMBDA p : ~Decided(p, criteria_list, keep_list_rules)),
     removed_count |-> SumCounts(SelectSeq(grouped,
                     LAMBDA p : Decided(p, criteria_list, keep_list_rules)))]

MaxEmails == 3

EmailInputs ==
    {EmailDetail(d, s) : d \in {"s.co", "n.co"},
                         s \in {"Sale", "Sale ", "SALE otp", "Your otp", "hello"}}

\* The rule files an analysis run can find on disk.
AnalyzeCriteriaFiles == {<<>>, <<Rule("", "s.co", "sale")>>}

Analyze1DayFiles == {<<>>, <<Rule("", "n.co", "")>>}

AnalyzeKeepFiles == {<<>>, <<Rule("", "s.co", "otp")>>}

InitAnalyze ==
    /\ arg \in [fn : {"main"}, email_details : SeqsUpTo(EmailInputs, MaxEmails)]
    /\ ret = [fn |-> "none"]
    /\ criteria \in AnalyzeCriteriaFiles
    /\ criteria_1d \in Analyze1DayFiles
    /\ keep_criteria \in AnalyzeKeepFiles
    /\ keep_list = <<>>
    /\ resp = NoResponse
    /\ BatchIdle

\* grouped = group_emails_by_pattern(email_details)
GroupEmails ==
    /\ arg.fn = "main"
    /\ ret.fn = "none"
    /\ ret' = [fn |-> "group_emails_by_pattern",
               grouped |-> group_emails_by_pattern(arg.email_details)]
    /\ UNCHANGED <<serverVars, arg, batchVars>>

\* category_counts.get('PROMO', 0) + category_counts.get('NEWSLETTER', 0)
promo_count ==
    Cardinality({k \in 1..Len(arg.email_details) :
                    arg.email_details[k].category \in {"PROMO", "NEWSLETTER"}})

\* if promo_count > 0: added = auto_add_promo_to_criteria(logger, grouped)
AutoAddPromo ==
    /\ ret.fn = "group_emails_by_pattern"
    /\ LET result == auto_add_promo_to_criteria(criteria, ret.grouped)
       IN  IF promo_count > 0
           THEN /\ criteria' = result.criteria
                /\ ret' = [fn |-> "auto_add_promo_to_criteria",
                           grouped |-> ret.grouped, added |-> result.added_count]
           ELSE /\ criteria' = criteria
                /\ ret' = [fn |-> "auto_add_promo_to_criteria",
                           grouped |-> ret.grouped, added |-> 0]
    /\ UNCHANGED <<criteria_1d, keep_criteria, keep_list, resp, arg, batchVars>>

\* criteria, keep_criteria = load_existing_criteria()
\* grouped, removed_count = filter_decided_emails(grouped, criteria, keep_criteria)
FilterDecided ==
    /\ ret.fn = "auto_add_promo_to_criteria"
    /\ LET loaded == load_existing_criteria
           result == filter_decided_emails(ret.grouped, loaded.criteria,
                                           loaded.keep_criteria)
       IN  ret' = [fn |-> "filter_decided_emails", grouped |-> ret.grouped,
                   added |-> ret.added, filtered |-> result.filtered,
                   removed_count |-> result.removed_count]
    /\ UNCHANGED <<serverVars, arg, batchVars>>

NextAnalyze ==
    \/ GroupEmails
    \/ AutoAddPromo
    \/ FilterDecided

SpecAnalyze == InitAnalyze /\ [][NextAnalyze]_vars

----------------------------------------------------------------------------
(* The analysis run started again on the same fetched emails: the          *)
(* auto-populate meets the criteria.json its first run has left.           *)

AutoAddPromoAgain ==
    /\ ret.fn = "auto_add_promo_to_criteria"
    /\ LET result == auto_add_promo_to_criteria(criteria, ret.grouped)
       IN  IF promo_count > 0
           THEN /\ criteria' = result.criteria
                /\ ret' = [fn |-> "rerun", grouped |-> ret.grouped,
                           added |-> ret.added, first |-> criteria,
                           added_again |-> result.added_count]
           ELSE /\ criteria' = criteria
                /\ ret' = [fn |-> "rerun", grouped |-> ret.grouped,
                           added |-> ret.added, first |-> criteria,
                           added_again |-> 0]
    /\ UNCHANGED <<criteria_1d, keep_criteria, keep_list, resp, arg, batchVars>>

NextRerun ==
    \/ GroupEmails
    \/ AutoAddPromo
    \/ AutoAddPromoAgain

SpecRerun == InitAnalyze /\ [][NextRerun]_vars

----------------------------------------------------------------------------
(* The analysis run on emails of senders with and without an '@': the      *)
(* primary domain is what extract_domain_info makes of the address.        *)

extract_domain_info(email) ==
    IF ~StrIn("@", email) THEN [subdomain |-> "", primary_domain |-> ""]
    ELSE LET subdomain == Split(email, "@")[2]
             parts     == Split(subdomain, ".")
         IN  [subdomain      |-> subdomain,
              primary_domain |-> IF Len(parts) >= 2
                                 THEN parts[Len(parts) - 1] \o "." \o parts[Len(parts)]
                                 ELSE subdomain]

\* The record fetch_all_unread_emails keeps of a message from the address.
FetchedEmail(email, subject) ==
    EmailDetail(extract_domain_info(email).primary_domain, subject)

SenderInputs == {"a@s.co", "news@mail.n.co", "mailer-daemon"}

InitSender ==
    /\ arg \in [fn : {"main"},
                email_details :
                    SeqsUpTo({FetchedEmail(e, s) : e \in SenderInputs,
                                                   s \in {"Sale", "Your otp", "hello"}},
                             MaxEmails)]
    /\ ret = [fn |-> "none"]
    /\ criteria \in AnalyzeCriteriaFiles
    /\ criteria_1d \in Analyze1DayFiles
    /\ keep_criteria \in AnalyzeKeepFiles
    /\ keep_list = <<>>
    /\ resp = NoResponse
    /\ BatchIdle

SpecSender == InitSender /\ [][NextAnalyze]_vars

----------------------------------------------------------------------------
(* group_emails_by_pattern called on a fetched list and on the same        *)
(* emails in another order.                                                *)

\* An email of the fetched list with its Gmail message id.
EmailWithId(id, email) ==
    [id |-> id, primaryDomain |-> email.primaryDomain,
     subject |-> email.subject, category |-> email.category]

\* Two of the subjects are longer than 50 characters and differ after the
\* 50th only.
GroupSubjects ==
    {"Your otp",
     "Sale of the season, everything must go this week: a",
     "Sale of the season, everything must go this week: b"}

GroupEmailInputs ==
    {EmailDetail(d, s) : d \in {"s.co", "n.co"}, s \in GroupSubjects}

\* The list in another order: position k holds the email of position p[k].
Reordered(email_details, p) == [k \in 1..Len(email_details) |-> email_details[p[k]]]

InitGroup ==
    /\ \E details \in SeqsUpTo(GroupEmailInputs, MaxEmails) :
         \E p \in Permutations(1..Len(details)) :
            LET email_details == [k \in 1..Len(details) |-> EmailWithId(k, details[k])]
            IN  arg = [fn |-> "group", email_details |-> email_details,
                       reordered |-> Reordered(email_details, p)]
    /\ ret = [fn |-> "none"]
    /\ StoreEmpty
    /\ BatchIdle

GroupFetched ==
    /\ arg.fn = "group"
    /\ ret.fn = "none"
    /\ ret' = [fn |-> "grouped",
               grouped |-> group_emails_by_pattern(arg.email_details)]
    /\ UNCHANGED <<serverVars, arg, batchVars>>

GroupReordered ==
    /\ arg.fn = "group"
    /\ ret.fn = "grouped"
    /\ ret' = [fn |-> "regrouped", grouped |-> ret.grouped,
               regrouped |-> group_emails_by_pattern(arg.reordered)]
    /\ UNCHANGED <<serverVars, arg, batchVars>>

NextGroup ==
    \/ GroupFetched
    \/ GroupReordered

SpecGroup == InitGroup /\ [][NextGroup]_vars

----------------------------------------------------------------------------
(* The three rule comparisons, each called on one stored rule and one      *)
(* domain and subject: is_duplicate_criteria and matches_criteria_pattern  *)
(* of the server, is_duplicate of the auto-populate.                       *)

CompareDomains == {"s.co", "S.CO", " s.co", "s.co ", "n.co"}

CompareSubjects == {"", "sale", "Sale", "sale ", "otp"}

InitCompare ==
    /\ arg \in [fn : {"is_duplicate_criteria", "is_duplicate", "matches_criteria_pattern"},
                stored : {Rule("", d, s) : d \in CompareDomains, s \in CompareSubjects},
                domain : CompareDomains,
                subject : CompareSubjects]
    /\ ret = [fn |-> "none"]
    /\ StoreEmpty
    /\ BatchIdle

CompareIsDuplicateCriteria ==
    /\ arg.fn = "is_duplicate_criteria"
    /\ ret.fn = "none"
    /\ ret' = [fn |-> arg.fn,
               value |-> is_duplicate_criteria(<<arg.stored>>,
                             create_criteria_entry(arg.domain, arg.subject, None))]
    /\ UNCHANGED <<serverVars, arg, batchVars>>

CompareIsDuplicate ==
    /\ arg.fn = "is_duplicate"
    /\ ret.fn = "none"
    /\ ret' = [fn |-> arg.fn,
               value |-> is_duplicate(<<arg.stored>>, arg.domain, arg.subject)]
    /\ UNCHANGED <<serverVars, arg, batchVars>>

CompareMatchesPattern ==
    /\ arg.fn = "matches_criteria_pattern"
    /\ ret.fn = "none"
    /\ ret' = [fn |-> arg.fn,
               value |-> matches_criteria_pattern(arg.stored, arg.domain, arg.subject)]
    /\ UNCHANGED <<serverVars, arg, batchVars>>

NextCompare ==
    \/ CompareIsDuplicateCriteria
    \/ CompareIsDuplicate
    \/ CompareMatchesPattern

SpecCompare == InitCompare /\ [][NextCompare]_vars

----------------------------------------------------------------------------
(* delete_gmails.py: the deletion batch.                                   *)

RETRY_ATTEMPTS == 5

INITIAL_RETRY_DELAY == 5

\* The '' the batch puts in a count column that does not apply.  The
\* columns hold numbers otherwise, and no count is negative.
EmptyCell == -1

\* A criterion as get_deletion_criteria builds it from a sheet row.
Criterion(email, primaryDomain, subject, excludeSubject) ==
    [email |-> email, subdomain |-> "", primaryDomain |-> primaryDomain,
     subject |-> subject, toEmails |-> "", ccEmails |-> "",
     excludeSubject |-> excludeSubject]

\* " ".join(parts)
RECURSIVE join(_)
join(parts) ==
    IF parts = <<>> THEN ""
    ELSE IF Len(parts) = 1 THEN parts[1]
    ELSE parts[1] \o " " \o join(Tail(parts))

\* As query_parts, but of email, subdomain and primaryDomain only the
\* first that is set makes a part.
query_parts_one_sender(criterion) ==
    <<"is:unread">>
    \o (IF Truthy(criterion.email)
        THEN <<"from:" \o criterion.email>>
        ELSE IF Truthy(criterion.subdomain)
        THEN <<"from:*@" \o criterion.subdomain>>
        ELSE IF Truthy(criterion.primaryDomain)
        THEN <<"from:*@" \o criterion.primaryDomain>> ELSE <<>>)
    \o (IF Truthy(criterion.subject)
        THEN <<"subject:(\"" \o criterion.subject \o "\")">> ELSE <<>>)
    \o (IF Truthy(criterion.toEmails)
        THEN <<"to:(\"" \o criterion.toEmails \o "\")">> ELSE <<>>)
    \o (IF Truthy(criterion.ccEmails)
        THEN <<"cc:(\"" \o criterion.ccEmails \o "\")">> ELSE <<>>)
    \o (IF Truthy(criterion.excludeSubject)
        THEN <<"-subject:(\"" \o criterion.excludeSubject \o "\")">> ELSE <<>>)

query_parts(criterion) ==
    <<"is:unread">>
    \o (IF Truthy(criterion.email)
        THEN <<"from:" \o criterion.email>> ELSE <<>>)
    \o (IF Truthy(criterion.subdomain)
        THEN <<"from:*@" \o criterion.subdomain>> ELSE <<>>)
    \o (IF Truthy(criterion.primaryDomain)
        THEN <<"from:*@" \o criterion.primaryDomain>> ELSE <<>>)
    \o (IF Truthy(criterion.subject)
        THEN <<"subject:(\"" \o criterion.subject \o "\")">> ELSE <<>>)
    \o (IF Truthy(criterion.toEmails)
        THEN <<"to:(\"" \o criterion.toEmails \o "\")">> ELSE <<>>)
    \o (IF Truthy(criterion.ccEmails)
        THEN <<"cc:(\"" \o criterion.ccEmails \o "\")">> ELSE <<>>)
    \o (IF Truthy(criterion.excludeSubject)
        THEN <<"-subject:(\"" \o criterion.excludeSubject \o "\")">> ELSE <<>>)

build_query(criterion) == strip(join(query_parts(criterion)))

\* As InvalidQuery, but no query is refused.
InvalidQuery_never(q) == FALSE

\* not query or query.strip() == 'is:unread'
InvalidQuery(q) == q = "" \/ strip(q) = "is:unread"

\* The messages of the mailbox before the batch runs, in the order the
\* mailbox lists them.
Inbox ==
    <<[id |-> "m1", from |-> "a@s.co", domain |-> "s.co",
       subject |-> "Big Sale", to |-> "me@x.co", cc |-> "", unread |-> TRUE],
      [id |-> "m2", from |-> "b@s.co", domain |-> "s.co",
       subject |-> "Your otp", to |-> "me@x.co", cc |-> "", unread |-> TRUE],
      [id |-> "m3", from |-> "a@n.co", domain |-> "n.co",
       subject |-> "Big Sale", to |-> "me@x.co", cc |-> "", unread |-> TRUE],
      [id |-> "m4", from |-> "a@n.co", domain |-> "n.co",
       subject |-> "hello", to |-> "me@x.co", cc |-> "", unread |-> TRUE],
      [id |-> "m5", from |-> "a@s.co", domain |-> "s.co",
       subject |-> "Old Sale", to |-> "me@x.co", cc |-> "", unread |-> FALSE]>>

\* The mailbox's reading of the query build_query makes of the criterion:
\* every part of the query has to hold of the message.
GmailMatches(msg, criterion) ==
    /\ msg.unread
    /\ Truthy(criterion.email) => lower(msg.from) = lower(criterion.email)
    /\ Truthy(criterion.subdomain) => lower(msg.domain) = lower(criterion.subdomain)
    /\ Truthy(criterion.primaryDomain) =>
           lower(msg.domain) = lower(criterion.primaryDomain)
    /\ Truthy(criterion.subject) =>
           StrIn(lower(criterion.subject), lower(msg.subject))
    /\ Truthy(criterion.toEmails) => lower(msg.to) = lower(criterion.toEmails)
    /\ Truthy(criterion.ccEmails) => lower(msg.cc) = lower(criterion.ccEmails)
    /\ Truthy(criterion.excludeSubject) =>
           ~StrIn(lower(criterion.excludeSubject), lower(msg.subject))

\* The mailbox answers a list call with at most PageSize messages.
PageSize == 1

\* messages().list(q=query, pageToken=token): the ids of one page, and the
\* token of the next page when there is one.
ListPage(criterion, token) ==
    LET found == SelectSeq(Inbox, LAMBDA m : m.id \in mailbox /\ GmailMatches(m, criterion))
        ids   == [k \in 1..Len(found) |-> found[k].id]
        last  == IF token + PageSize - 1 < Len(ids) THEN token + PageSize - 1 ELSE Len(ids)
    IN  IF last < Len(ids)
        THEN [messages |-> SubSeq(ids, token, last), nextPageToken |-> last + 1]
        ELSE [messages |-> SubSeq(ids, token, last)]

\* What a call of the mailbox API can end in.
ApiOutcomes == {"ok", "429", "HttpError", "Exception"}

\* As ApiFailure, but the wait is not doubled after a 429.
ApiFailure_constant_delay(outcome) ==
    IF outcome = "429"
    THEN /\ current_retries' = current_retries + 1
         /\ current_delay' = current_delay
         /\ pc' = "while"
         /\ UNCHANGED <<statuses, deleted_counts, dry_run_counts>>
    ELSE /\ statuses' = Append(statuses,
                IF outcome = "HttpError" THEN "Failed: Gmail API error"
                ELSE "Failed: An unexpected error occurred")
         /\ deleted_counts' = Append(deleted_counts, 0)
         /\ dry_run_counts' = Append(dry_run_counts, 0)
         /\ pc' = "after"
         /\ UNCHANGED <<current_retries, current_delay>>

\* The two except clauses of the retry loop.
ApiFailure(outcome) ==
    IF outcome = "429"
    THEN /\ current_retries' = current_retries + 1
         /\ current_delay' = current_delay * 2
         /\ pc' = "while"
         /\ UNCHANGED <<statuses, deleted_counts, dry_run_counts>>
    ELSE /\ statuses' = Append(statuses,
                IF outcome = "HttpError" THEN "Failed: Gmail API error"
                ELSE "Failed: An unexpected error occurred")
         /\ deleted_counts' = Append(deleted_counts, 0)
         /\ dry_run_counts' = Append(dry_run_counts, 0)
         /\ pc' = "after"
         /\ UNCHANGED <<current_retries, current_delay>>

MaxCriteria == 2

CriterionInputs ==
    {Criterion("", "", "", ""),
     Criterion(None, None, None, None),
     Criterion("", "s.co", "", ""),
     Criterion("", "s.co", "sale", ""),
     Criterion("", "", "", "otp"),
     Criterion("a@n.co", "", "", "")}

\* The keep rules on disk while the batch runs.
KeepInputs == {<<>>, <<Rule("", "s.co", "otp")>>}

InitBatch ==
    /\ arg \in [fn : {"delete_emails_by_criteria"},
                criteria : SeqsUpTo(CriterionInputs, MaxCriteria)]
    /\ ret = [fn |-> "none"]
    /\ dry_run \in BOOLEAN
    /\ criteria = <<>>
    /\ criteria_1d = <<>>
    /\ keep_criteria \in KeepInputs
    /\ keep_list = <<>>
    /\ resp = NoResponse
    /\ pc = "loop"
    /\ crit_i = 0
    /\ query = ""
    /\ current_retries = 0
    /\ current_delay = 0
    /\ success = FALSE
    /\ response = [messages |-> <<>>]
    /\ message_ids = <<>>
    /\ statuses = <<>>
    /\ deleted_counts = <<>>
    /\ dry_run_counts = <<>>
    /\ mailbox = {Inbox[k].id : k \in 1..Len(Inbox)}
    /\ calls = {}

\* The criterion the loop is at.
criterion == arg.criteria[crit_i + 1]

\* for i, criterion in enumerate(criteria): build the query, refuse it
\* or enter the retry loop.
NextCriterion ==
    /\ pc = "loop"
    /\ crit_i < Len(arg.criteria)
    /\ query' = build_query(criterion)
    /\ IF InvalidQuery(query')
       THEN /\ statuses' = Append(statuses, "Failed: Invalid query")
            /\ deleted_counts' = Append(deleted_counts, 0)
            /\ dry_run_counts' = Append(dry_run_counts, 0)
            /\ crit_i' = crit_i + 1
            /\ pc' = "loop"
            /\ UNCHANGED <<current_retries, current_delay, success>>
       ELSE /\ current_retries' = 0
            /\ current_delay' = INITIAL_RETRY_DELAY
            /\ success' = FALSE
            /\ pc' = "while"
            /\ UNCHANGED <<statuses, deleted_counts, dry_run_counts, crit_i>>
    /\ UNCHANGED <<dry_run, response, message_ids, mailbox, calls>>
    /\ UNCHANGED <<serverVars, callVars>>

\* The first list call of an attempt.
ListMessages ==
    /\ pc = "while"
    /\ current_retries < RETRY_ATTEMPTS
    /\ calls' = calls \cup {[op |-> "list", i |-> crit_i + 1]}
    /\ \E outcome \in ApiOutcomes :
          IF outcome = "ok"
          THEN /\ response' = ListPage(criterion, 1)
               /\ message_ids' = <<>>
               /\ pc' = "page"
               /\ UNCHANGED <<current_retries, current_delay, statuses,
                              deleted_counts, dry_run_counts>>
          ELSE /\ ApiFailure(outcome)
               /\ UNCHANGED <<response, message_ids>>
    /\ UNCHANGED <<dry_run, crit_i, query, success, mailbox>>
    /\ UNCHANGED <<serverVars, callVars>>

\* while current_retries < RETRY_ATTEMPTS ends without a break.
RetriesUsedUp ==
    /\ pc = "while"
    /\ current_retries >= RETRY_ATTEMPTS
    /\ pc' = "after"
    /\ UNCHANGED <<dry_run, crit_i, query, current_retries, current_delay, success,
                   response, message_ids, statuses, deleted_counts, dry_run_counts,
                   mailbox, calls>>
    /\ UNCHANGED <<serverVars, callVars>>

\* while 'nextPageToken' in response: keep the page, ask for the next.
ListNextPage ==
    /\ pc = "page"
    /\ "nextPageToken" \in DOMAIN response
    /\ message_ids' = message_ids \o response.messages
    /\ calls' = calls \cup {[op |-> "list", i |-> crit_i + 1]}
    /\ \E outcome \in ApiOutcomes :
          IF outcome = "ok"
          THEN /\ response' = ListPage(criterion, response.nextPageToken)
               /\ pc' = "page"
               /\ UNCHANGED <<current_retries, current_delay, statuses,
                              deleted_counts, dry_run_counts>>
          ELSE /\ ApiFailure(outcome)
               /\ UNCHANGED response
    /\ UNCHANGED <<dry_run, crit_i, query, success, mailbox>>
    /\ UNCHANGED <<serverVars, callVars>>

\* As AllIds, but without the ids of the page that has no nextPageToken.
AllIds_without_last_page == message_ids

\* The ids found once the last page is in.
AllIds == message_ids \o response.messages

\* As BatchDelete, but the dry_run flag is not looked at.
BatchDelete_ignoring_dry_run ==
    /\ pc = "page"
    /\ "nextPageToken" \notin DOMAIN response
    /\ AllIds # <<>>
    /\ message_ids' = AllIds
    /\ calls' = calls \cup {[op |-> "batchDelete", i |-> crit_i + 1, ids |-> AllIds]}
    /\ \E outcome \in ApiOutcomes :
          IF outcome = "ok"
          THEN /\ mailbox' = mailbox \ {AllIds[k] : k \in 1..Len(AllIds)}
               /\ statuses' = Append(statuses, "Success")
               /\ deleted_counts' = Append(deleted_counts, Len(AllIds))
               /\ dry_run_counts' = Append(dry_run_counts, EmptyCell)
               /\ success' = TRUE
               /\ pc' = "after"
               /\ UNCHANGED <<current_retries, current_delay>>
          ELSE /\ ApiFailure(outcome)
               /\ UNCHANGED <<mailbox, success>>
    /\ UNCHANGED <<dry_run, crit_i, query, response>>
    /\ UNCHANGED <<serverVars, callVars>>

\* Live run with matches: messages().batchDelete(ids), which removes the
\* messages from the mailbox for good.
BatchDelete ==
    /\ pc = "page"
    /\ "nextPageToken" \notin DOMAIN response
    /\ AllIds # <<>>
    /\ ~dry_run
    /\ message_ids' = AllIds
    /\ calls' = calls \cup {[op |-> "batchDelete", i |-> crit_i + 1, ids |-> AllIds]}
    /\ \E outcome \in ApiOutcomes :
          IF outcome = "ok"
          THEN /\ mailbox' = mailbox \ {AllIds[k] : k \in 1..Len(AllIds)}
               /\ statuses' = Append(statuses, "Success")
               /\ deleted_counts' = Append(deleted_counts, Len(AllIds))
               /\ dry_run_counts' = Append(dry_run_counts, EmptyCell)
               /\ success' = TRUE
               /\ pc' = "after"
               /\ UNCHANGED <<current_retries, current_delay>>
          ELSE /\ ApiFailure(outcome)
               /\ UNCHANGED <<mailbox, success>>
    /\ UNCHANGED <<dry_run, crit_i, query, response>>
    /\ UNCHANGED <<serverVars, callVars>>

\* Dry run with matches: only the count is recorded.
DryRun ==
    /\ pc = "page"
    /\ "nextPageToken" \notin DOMAIN response
    /\ AllIds # <<>>
    /\ dry_run
    /\ message_ids' = AllIds
    /\ statuses' = Append(statuses, "Dry Run")
    /\ deleted_counts' = Append(deleted_counts, EmptyCell)
    /\ dry_run_counts' = Append(dry_run_counts, Len(AllIds))
    /\ success' = TRUE
    /\ pc' = "after"
    /\ UNCHANGED <<dry_run, crit_i, query, current_retries, current_delay, response,
                   mailbox, calls>>
    /\ UNCHANGED <<serverVars, callVars>>

NoMatches ==
    /\ pc = "page"
    /\ "nextPageToken" \notin DOMAIN response
    /\ AllIds = <<>>
    /\ message_ids' = AllIds
    /\ statuses' = Append(statuses, "No matching emails found")
    /\ deleted_counts' = Append(deleted_counts, 0)
    /\ dry_run_counts' = Append(dry_run_counts, 0)
    /\ success' = TRUE
    /\ pc' = "after"
    /\ UNCHANGED <<dry_run, crit_i, query, current_retries, current_delay, response,
                   mailbox, calls>>
    /\ UNCHANGED <<serverVars, callVars>>

\* After the retry loop: if not success, one more outcome is recorded.
AfterRetryLoop ==
    /\ pc = "after"
    /\ IF ~success
       THEN /\ statuses' = Append(statuses, "Failed: Retries exhausted for query: " \o query)
            /\ deleted_counts' = Append(deleted_counts, 0)
            /\ dry_run_counts' = Append(dry_run_counts, 0)
       ELSE UNCHANGED <<statuses, deleted_counts, dry_run_counts>>
    /\ crit_i' = crit_i + 1
    /\ pc' = "loop"
    /\ UNCHANGED <<dry_run, query, current_retries, current_delay, success, response,
                   message_ids, mailbox, calls>>
    /\ UNCHANGED <<serverVars, callVars>>

\* return statuses, deleted_counts, dry_run_counts
ReturnResults ==
    /\ pc = "loop"
    /\ crit_i = Len(arg.criteria)
    /\ ret' = [fn |-> "delete_emails_by_criteria", statuses |-> statuses,
               deleted_counts |-> deleted_counts, dry_run_counts |-> dry_run_counts]
    /\ pc' = "done"
    /\ UNCHANGED <<serverVars, arg>>
    /\ UNCHANGED <<dry_run, crit_i, query, current_retries, current_delay, success,
                   response, message_ids, statuses, deleted_counts, dry_run_counts,
                   mailbox, calls>>

NextBatch ==
    \/ NextCriterion
    \/ ListMessages
    \/ RetriesUsedUp
    \/ ListNextPage
    \/ BatchDelete
    \/ DryRun
    \/ NoMatches
    \/ AfterRetryLoop
    \/ ReturnResults

SpecBatch == InitBatch /\ [][NextBatch]_vars

\* The batch on criteria lists made of one executable and one empty
\* criterion, with no keep rules on disk.
RetryCriterionInputs ==
    {Criterion("", "s.co", "", ""), Criterion("", "", "", "")}

InitRetry ==
    /\ InitBatch
    /\ arg.criteria \in SeqsUpTo(RetryCriterionInputs, MaxCriteria)
    /\ keep_criteria = <<>>

\* The script runs on: a step of the batch that can be taken is taken.
SpecRetry == InitRetry /\ [][NextBatch]_vars /\ WF_vars(NextBatch)

----------------------------------------------------------------------------
(* build_query called on a criterion of any content.                       *)

QueryCriteria ==
    [email : {"", None, "a@s.co"}, subdomain : {"", "m.s.co"},
     primaryDomain : {"", "s.co"}, subject : {"", "sale"},
     toEmails : {"", "me@x.co"}, ccEmails : {"", "c@x.co"},
     excludeSubject : {"", "otp", "otp,spam"}]

InitQuery ==
    /\ arg \in [fn : {"build_query"}, criterion : QueryCriteria]
    /\ ret = [fn |-> "none"]
    /\ StoreEmpty
    /\ BatchIdle

BuildQuery ==
    /\ arg.fn = "build_query"
    /\ ret.fn = "none"
    /\ ret' = [fn |-> "build_query", value |-> build_query(arg.criterion)]
    /\ UNCHANGED <<serverVars, arg, batchVars>>

NextQuery == BuildQuery

SpecQuery == InitQuery /\ [][NextQuery]_vars

----------------------------------------------------------------------------
(* delete_gmails.py, main: the criteria are read from the sheet, the       *)
(* batch is run on them and update_results_to_sheet writes the outcomes    *)
(* back.  The sheet is a sequence of rows of cells, the header first, as   *)
(* values().get() returns it: a row ends at its last cell that is filled.  *)

expected_headers ==
    <<"email", "subdomain", "primaryDomain", "subject", "toEmails", "ccEmails",
      "excludeSubject">>

\* header.index(name), counting from 1; 0 where the code keeps -1.
HeaderIndex(header, name) ==
    IF \E k \in 1..Len(header) : header[k] = name
    THEN CHOOSE k \in 1..Len(header) :
             header[k] = name /\ \A j \in 1..(k - 1) : header[j] # name
    ELSE 0

\* The criterion get_deletion_criteria makes of one row.
RowCriterion(header, row) ==
    [key \in {expected_headers[k] : k \in 1..Len(expected_headers)} |->
        IF HeaderIndex(header, key) # 0 /\ HeaderIndex(header, key) <= Len(row)
        THEN strip(row[HeaderIndex(header, key)]) ELSE ""]

\* any(criterion.values())
AnyValue(c) == \E key \in DOMAIN c : c[key] # ""

get_deletion_criteria(values) ==
    IF values = <<>> THEN [header |-> <<>>, criteria |-> <<>>]
    ELSE [header   |-> values[1],
          criteria |-> SelectSeq([k \in 1..(Len(values) - 1) |->
                                     RowCriterion(values[1], values[k + 1])],
                                 AnyValue)]

\* main: the criteria the --filter argument lets through.
FilterCriteria(criteria_list, filter) ==
    IF ~Truthy(filter) THEN criteria_list
    ELSE SelectSeq(criteria_list,
                   LAMBDA c : \/ StrIn(lower(filter), lower(c.email))
                              \/ StrIn(lower(filter), lower(c.subdomain))
                              \/ StrIn(lower(filter), lower(c.primaryDomain)))

\* A count as the sheet shows it; the '' of a count that does not apply
\* is the empty cell.
CellOf(count) ==
    IF count = EmptyCell THEN ""
    ELSE IF count = 0 THEN "0"
    ELSE IF count = 1 THEN "1"
    ELSE IF count = 2 THEN "2"
    ELSE "3"

\* The header with the result columns it lacks appended, in the order
\* Status, Deleted Count, Dry Run.
ResultHeader(header) ==
    LET h1 == IF HeaderIndex(header, "Status") = 0
              THEN Append(header, "Status") ELSE header
        h2 == IF HeaderIndex(header, "Deleted Count") = 0
              THEN Append(h1, "Deleted Count") ELSE h1
    IN  IF HeaderIndex(header, "Dry Run") = 0 THEN Append(h2, "Dry Run") ELSE h2

\* col_map: a column of the header; when the name occurs twice, the last.
ColMap(header, name) ==
    CHOOSE k \in 1..Len(header) :
        header[k] = name /\ \A j \in (k + 1)..Len(header) : header[j] # name

\* The three-key dictionary the row is looked up by.
original_criterion(row) ==
    [email         |-> IF Len(row) > 0 THEN strip(row[1]) ELSE "",
     subdomain     |-> IF Len(row) > 1 THEN strip(row[2]) ELSE "",
     primaryDomain |-> IF Len(row) > 2 THEN strip(row[3]) ELSE ""]

\* criteria_list.index(c), counting from 1; 0 for ValueError.  Two
\* dictionaries are equal when they have the same keys and values.
ListIndex(criteria_list, c) ==
    IF \E k \in 1..Len(criteria_list) : criteria_list[k] = c
    THEN CHOOSE k \in 1..Len(criteria_list) :
             criteria_list[k] = c /\ \A j \in 1..(k - 1) : criteria_list[j] # c
    ELSE 0

\* The grid update_results_to_sheet writes to the sheet.
update_results_to_sheet(current_values, criteria_list, results) ==
    LET header == ResultHeader(current_values[1])
        cell(i, j) ==
            LET row             == current_values[i]
                processed_index == ListIndex(criteria_list, original_criterion(row))
            IN  IF j = ColMap(header, "Status")
                THEN IF processed_index # 0
                     THEN results.statuses[processed_index] ELSE ""
                ELSE IF j = ColMap(header, "Deleted Count")
                THEN IF processed_index # 0
                     THEN CellOf(results.deleted_counts[processed_index]) ELSE ""
                ELSE IF j = ColMap(header, "Dry Run")
                THEN IF processed_index # 0
                     THEN CellOf(results.dry_run_counts[processed_index]) ELSE ""
                ELSE IF j <= Len(row) THEN row[j] ELSE ""
    IN  [i \in 1..Len(current_values) |->
            IF i = 1 THEN header
            ELSE [j \in 1..Len(header) |-> cell(i, j)]]

MaxRows == 2

SheetHeaders ==
    {expected_headers, expected_headers \o <<"Status", "Deleted Count", "Dry Run">>}

\* Rows of a sheet: a domain rule, a sender rule, a rule with a subject, an
\* empty row, and a rule with the results of an earlier run.
SheetRows ==
    {<<"", "", "s.co">>,
     <<"a@n.co">>,
     <<"", "", "s.co ", "sale">>,
     <<>>,
     <<"", "", "n.co", "", "", "", "", "Success", "2", "">>}

\* What delete_emails_by_criteria returns for one criterion.
Outcomes ==
    {[status |-> "Success", deleted |-> 2, dry |-> EmptyCell],
     [status |-> "Dry Run", deleted |-> EmptyCell, dry |-> 1],
     [status |-> "No matching emails found", deleted |-> 0, dry |-> 0]}

InitSheet ==
    /\ arg \in [fn : {"main"},
                values : {<<h>> \o rows : h \in SheetHeaders,
                                          rows \in SeqsUpTo(SheetRows, MaxRows)},
                filter : {None, "s.co"}]
    /\ ret = [fn |-> "none"]
    /\ StoreEmpty
    /\ BatchIdle

\* header, criteria = get_deletion_criteria(...), then the --filter.
GetDeletionCriteria ==
    /\ arg.fn = "main"
    /\ ret.fn = "none"
    /\ ret' = [fn |-> "get_deletion_criteria",
               criteria |-> FilterCriteria(get_deletion_criteria(arg.values).criteria,
                                           arg.filter)]
    /\ UNCHANGED <<serverVars, arg, batchVars>>

\* if not criteria: return
NoCriteria ==
    /\ ret.fn = "get_deletion_criteria"
    /\ ret.criteria = <<>>
    /\ ret' = [fn |-> "main", criteria |-> <<>>, values |-> arg.values]
    /\ UNCHANGED <<serverVars, arg, batchVars>>

\* The batch returns its three lists and update_results_to_sheet rewrites
\* the sheet.
UpdateResultsToSheet ==
    /\ ret.fn = "get_deletion_criteria"
    /\ ret.criteria # <<>>
    /\ \E outcome \in [1..Len(ret.criteria) -> Outcomes] :
          LET results == [statuses       |-> [k \in 1..Len(ret.criteria) |-> outcome[k].status],
                          deleted_counts |-> [k \in 1..Len(ret.criteria) |-> outcome[k].deleted],
                          dry_run_counts |-> [k \in 1..Len(ret.criteria) |-> outcome[k].dry]]
          IN  ret' = [fn |-> "update_results_to_sheet", criteria |-> ret.criteria,
                      results |-> results,
                      values |-> update_results_to_sheet(arg.values, ret.criteria, results)]
    /\ UNCHANGED <<serverVars, arg, batchVars>>

NextSheet ==
    \/ GetDeletionCriteria
    \/ NoCriteria
    \/ UpdateResultsToSheet

SpecSheet == InitSheet /\ [][NextSheet]_vars

----------------------------------------------------------------------------
(* The rule store: claims checked under Spec.                              *)

\* The spec's normalization of a domain or a subject fragment (section 4.3):
\* case-insensitive, leading and trailing whitespace stripped.
Normalized(s) == lower(strip(s))

\* C2: right after a successful mark-keep(domain, fragment), neither
\* criteria.json nor criteria_1day_old.json holds a rule that
\* removeMatching(domain, fragment) would match.
C2_KeepClearsBothDeleteCollections ==
    (resp.op = "mark-keep" /\ resp.status = 200) =>
        /\ \A k \in 1..Len(criteria) :
              ~matches_criteria_pattern(criteria[k], resp.entry.primaryDomain,
                                        resp.entry.subject)
        /\ \A k \in 1..Len(criteria_1d) :
              ~matches_criteria_pattern(criteria_1d[k], resp.entry.primaryDomain,
                                        resp.entry.subject)

\* Two rules are duplicates in the spec's sense: equal normalized
\* primaryDomain and equal normalized subject fragment.
SameNormalizedRule(r1, r2) ==
    /\ Normalized(r1.primaryDomain) = Normalized(r2.primaryDomain)
    /\ Normalized(r1.subject) = Normalized(r2.subject)

NoNormalizedDuplicate(file) ==
    \A j, k \in 1..Len(file) : j # k => ~SameNormalizedRule(file[j], file[k])

\* C5: after any sequence of requests neither delete collection holds two
\* rules with equal normalized (primaryDomain, subject): the second add of
\* the same normalized rule is rejected and stores nothing.
C5_NoDuplicateRule ==
    NoNormalizedDuplicate(criteria) /\ NoNormalizedDuplicate(criteria_1d)

----------------------------------------------------------------------------
(* One request on a rule store of any content: claims checked under        *)
(* SpecRequest.                                                            *)

\* C17: an add-criteria, add-criteria-1d or mark-keep request whose domain
\* is missing or empty is answered 400 without success and leaves the three
\* rule files and the keep log as they were.
C17_BlankRuleRejected ==
    (ret.fn = "handled" /\ arg.data # NoBody /\ ~Truthy(arg.data.domain)) =>
        /\ resp.status = 400
        /\ resp.success = FALSE
        /\ <<criteria, criteria_1d, keep_criteria, keep_list>> = arg.before

\* A mark-keep without a domain was refused while rules were on file.
C17_Witness ==
    /\ ret.fn = "handled"
    /\ arg.fn = "mark_keep"
    /\ arg.data # NoBody
    /\ arg.data.domain = None
    /\ resp.status = 400
    /\ criteria # <<>>
    /\ criteria_1d # <<>>

----------------------------------------------------------------------------
(* Concurrent requests: claims checked under SpecConcurrent.               *)

\* criteria.json after the request has been handled alone.
HandledAlone(file, request) ==
    IF request.op = "add-criteria"
    THEN LET entry == create_criteria_entry(request.data.domain,
                          request.data.subject_pattern, request.data.exclude_subject)
         IN  IF ~Truthy(request.data.domain) \/ is_duplicate_criteria(file, entry)
             THEN file ELSE Append(file, entry)
    ELSE IF file = <<>> THEN file ELSE SubSeq(file, 1, Len(file) - 1)

\* C14: once two concurrent requests on criteria.json are both answered,
\* the file is what handling them one after the other, in one of the two
\* orders, would have left of the file they started on.
C14_MutationsSerialized ==
    (ret.fn = "threads" /\ \A t \in Threads : ret.threads[t].at = "done") =>
        \/ criteria = HandledAlone(HandledAlone(arg.file, arg.requests[1]),
                                   arg.requests[2])
        \/ criteria = HandledAlone(HandledAlone(arg.file, arg.requests[2]),
                                   arg.requests[1])

----------------------------------------------------------------------------
(* remove_from_criteria: claims checked under SpecRemove.                  *)

\* An optional string as the comparison sees it: None counts as "".
OrEmpty(v) == IF v = None THEN "" ELSE v

\* The rules removeMatching(domain, fragment) removes according to the spec:
\* normalized domains equal, and the rule's fragment empty, or the given
\* fragment empty, or one normalized fragment a substring of the other.
RemoveMatchingCovers(rule, domain, fragment) ==
    LET rd == Normalized(rule.primaryDomain)
        rf == Normalized(rule.subject)
        gd == Normalized(OrEmpty(domain))
        gf == Normalized(OrEmpty(fragment))
    IN  /\ rd = gd
        /\ (rf = "" \/ gf = "" \/ StrIn(rf, gf) \/ StrIn(gf, rf))

\* C6: remove_from_criteria removes exactly the rules removeMatching covers,
\* keeps every other rule in its original order and returns the number of
\* rules removed.
C6_RemoveMatchingExact ==
    ret.fn = "remove_from_criteria" =>
        /\ criteria = SelectSeq(arg.file,
                LAMBDA r : ~RemoveMatchingCovers(r, arg.domain, arg.subject_pattern))
        /\ ret.value = Len(arg.file) - Len(criteria)

----------------------------------------------------------------------------
(* matches_any_criteria: claims checked under SpecMatch.                   *)

\* A rule covers a message according to the spec's matchesKeepList: the
\* rule's normalized domain is a case-insensitive substring of the sender
\* domain, and the rule's fragment is empty or a case-insensitive substring
\* of the subject.
RuleCovers(rule, domain, subject) ==
    /\ StrIn(Normalized(rule.primaryDomain), lower(OrEmpty(domain)))
    /\ \/ rule.subject = ""
       \/ StrIn(lower(rule.subject), lower(OrEmpty(subject)))

\* C7: matches_any_criteria returns true iff some rule of the list covers
\* the message.
C7_MatchIffSomeRuleCovers ==
    ret.fn = "matches_any_criteria" =>
        (ret.value <=> \E k \in 1..Len(arg.criteria_list) :
                          RuleCovers(arg.criteria_list[k], arg.domain, arg.subject))

----------------------------------------------------------------------------
(* The analysis run: claims checked under SpecAnalyze.                     *)

\* The categories the spec flags as safe to delete without asking.
SafeToAutoDelete == {"PROMO", "NEWSLETTER"}

\* What AutoPopulate has to leave in deleteNow: one domain + subject sample
\* rule per safe cluster that is not a duplicate, in the spec's sense, of a
\* rule already there.
RECURSIVE ExpectedAutoPopulate(_, _, _)
ExpectedAutoPopulate(k, clusters, rules) ==
    IF k > Len(clusters) THEN rules
    ELSE LET rule == Rule("", clusters[k].domain, clusters[k].subject_sample)
         IN  IF /\ clusters[k].category \in SafeToAutoDelete
                /\ \A j \in 1..Len(rules) : ~SameNormalizedRule(rules[j], rule)
             THEN ExpectedAutoPopulate(k + 1, clusters, Append(rules, rule))
             ELSE ExpectedAutoPopulate(k + 1, clusters, rules)

\* C11: auto-populate appends to criteria.json exactly one rule for every
\* PROMO or NEWSLETTER cluster that is not a duplicate of a rule already
\* present, leaves the rules that were there as they are, adds nothing for
\* other clusters, and returns the number of rules it appended.
C11_AutoPopulateExactlySafeClusters ==
    [][ret.fn = "group_emails_by_pattern" =>
          /\ criteria' = ExpectedAutoPopulate(1, ret.grouped, criteria)
          /\ ret'.added = Len(criteria') - Len(criteria)]_vars

\* The pattern is among those put before the user.
Surfaced(pattern) ==
    \E k \in 1..Len(ret.filtered) : ret.filtered[k] = pattern

\* C12: in a run that found all three rule files empty, every cluster of a
\* category other than PROMO and NEWSLETTER is put before the user.
C12_UnsafeClustersSurfaced ==
    (/\ ret.fn = "filter_decided_emails"
     /\ Len(criteria) = ret.added
     /\ criteria_1d = <<>>
     /\ keep_criteria = <<>>) =>
        \A k \in 1..Len(ret.grouped) :
            ret.grouped[k].category \notin SafeToAutoDelete => Surfaced(ret.grouped[k])

\* Some rule of the collection covers the cluster.
CoveredBy(pattern, rules) ==
    \E k \in 1..Len(rules) : RuleCovers(rules[k], pattern.domain, pattern.subject_sample)

\* C13: a cluster is dropped from what is put before the user iff a rule of
\* criteria.json, of criteria_1day_old.json or of keep_criteria.json
\* covers it.
C13_FilterTestsAllThreeCollections ==
    ret.fn = "filter_decided_emails" =>
        \A k \in 1..Len(ret.grouped) :
            ~Surfaced(ret.grouped[k]) <=>
                \/ CoveredBy(ret.grouped[k], criteria)
                \/ CoveredBy(ret.grouped[k], criteria_1d)
                \/ CoveredBy(ret.grouped[k], keep_criteria)

----------------------------------------------------------------------------
(* The rule comparisons: claims checked under SpecCompare.                 *)

\* C18: when the stored rule's domain and subject differ from the given
\* ones only in letter case or in leading and trailing whitespace, each of
\* the three comparisons takes them for equal.
C18_ComparisonNormalized ==
    (/\ ret.fn \in {"is_duplicate_criteria", "is_duplicate", "matches_criteria_pattern"}
     /\ Normalized(arg.stored.primaryDomain) = Normalized(arg.domain)
     /\ Normalized(arg.stored.subject) = Normalized(arg.subject)) =>
        ret.value = TRUE

----------------------------------------------------------------------------
(* build_query: claims checked under SpecQuery.                            *)

\* The constraints of a query: its parts between blanks, all AND-ed.
Constraints(q) == Split(q, " ")

StartsWith(s, prefix) ==
    Len(s) >= Len(prefix) /\ SubSeq(s, 1, Len(prefix)) = prefix

Negated(constraint) == StartsWith(constraint, "-subject:")

\* The constraints C19 asks for: unread, then one per field that is set.
PositiveConstraints(c) ==
    <<"is:unread">>
    \o (IF Truthy(c.email) THEN <<"from:" \o c.email>> ELSE <<>>)
    \o (IF Truthy(c.subdomain) THEN <<"from:*@" \o c.subdomain>> ELSE <<>>)
    \o (IF Truthy(c.primaryDomain) THEN <<"from:*@" \o c.primaryDomain>> ELSE <<>>)
    \o (IF Truthy(c.subject) THEN <<"subject:(\"" \o c.subject \o "\")">> ELSE <<>>)
    \o (IF Truthy(c.toEmails) THEN <<"to:(\"" \o c.toEmails \o "\")">> ELSE <<>>)
    \o (IF Truthy(c.ccEmails) THEN <<"cc:(\"" \o c.ccEmails \o "\")">> ELSE <<>>)

\* C19: apart from the exclusions, the query is made of the unread
\* constraint and exactly one constraint for each of email, subdomain,
\* primaryDomain, subject, toEmails and ccEmails that is not empty; the
\* three sender fields each make their own constraint when several are set.
C19_OneConstraintPerField ==
    ret.fn = "build_query" =>
        SelectSeq(Constraints(ret.value), LAMBDA t : ~Negated(t))
            = PositiveConstraints(arg.criterion)

\* Exact sender, subdomain and primary domain are all set and all three
\* are in the query.
C19_Witness ==
    /\ ret.fn = "build_query"
    /\ arg.criterion.email = "a@s.co"
    /\ arg.criterion.subdomain = "m.s.co"
    /\ arg.criterion.primaryDomain = "s.co"
    /\ arg.criterion.subject = ""
    /\ ret.value = "is:unread from:a@s.co from:*@m.s.co from:*@s.co"

\* The excluded fragments a rule stores in excludeSubject, comma-joined.
Exclusions(c) ==
    IF ~Truthy(c.excludeSubject) THEN <<>>
    ELSE SelectSeq([k \in 1..Len(Split(c.excludeSubject, ",")) |->
                       strip(Split(c.excludeSubject, ",")[k])],
                   LAMBDA f : f # "")

\* C20: the query has one negated subject constraint for each excluded
\* fragment of the rule.
C20_OneNegationPerExclusion ==
    ret.fn = "build_query" =>
        SelectSeq(Constraints(ret.value), Negated)
            = [k \in 1..Len(Exclusions(arg.criterion)) |->
                  "-subject:(\"" \o Exclusions(arg.criterion)[k] \o "\")"]

----------------------------------------------------------------------------
(* The deletion batch: claims checked under SpecBatch.                     *)

\* The message of the mailbox with the given id.
Message(id) == Inbox[CHOOSE k \in 1..Len(Inbox) : Inbox[k].id = id]

\* The message is covered by a rule of the keep collection.
MatchesKeepList(msg) == matches_any_criteria(msg.domain, msg.subject, keep_criteria)

\* C1: no message that matches a keep rule is among the ids of a delete
\* call of the batch.
C1_KeptMessagesNeverDeleted ==
    \A c \in calls :
        c.op = "batchDelete" =>
            \A k \in 1..Len(c.ids) : ~MatchesKeepList(Message(c.ids[k]))

\* C3: the batch calls the mailbox only to list messages and to move
\* messages to trash, never to remove them for good.
C3_OnlyMovesToTrash ==
    \A c \in calls : c.op \in {"list", "trash"}

\* Every field of the criterion is empty or missing.
AllEmpty(c) ==
    \A f \in {"email", "subdomain", "primaryDomain", "subject", "toEmails",
              "ccEmails", "excludeSubject"} : ~Truthy(c[f])

\* C4: a criterion whose seven fields are all empty is dealt with in one
\* step that calls the mailbox neither to list nor to delete, records
\* 'Failed: Invalid query' with both counts 0 and moves on to the next
\* criterion; no call of the mailbox is ever made for such a criterion.
C4_EmptyCriterionNotExecuted ==
    /\ [](\A c \in calls : ~AllEmpty(arg.criteria[c.i]))
    /\ [][(/\ pc = "loop"
           /\ crit_i < Len(arg.criteria)
           /\ AllEmpty(arg.criteria[crit_i + 1]))
          => (/\ statuses' = Append(statuses, "Failed: Invalid query")
              /\ deleted_counts' = Append(deleted_counts, 0)
              /\ dry_run_counts' = Append(dry_run_counts, 0)
              /\ calls' = calls
              /\ mailbox' = mailbox
              /\ crit_i' = crit_i + 1
              /\ pc' = "loop")]_vars

\* An empty criterion was refused and the batch went on to the criterion
\* after it, for which it called the mailbox.
C4_Witness ==
    /\ Len(arg.criteria) = 2
    /\ AllEmpty(arg.criteria[1])
    /\ ~AllEmpty(arg.criteria[2])
    /\ pc = "done"
    /\ statuses[1] = "Failed: Invalid query"
    /\ deleted_counts[1] = 0
    /\ dry_run_counts[1] = 0
    /\ calls # {}
    /\ \A c \in calls : c.i = 2

\* 2^n
RECURSIVE TwoToThe(_)
TwoToThe(n) == IF n = 0 THEN 1 ELSE 2 * TwoToThe(n - 1)

\* C15: while a criterion is being tried, at most 5 rate-limited answers
\* have been counted and the wait stands at 5 seconds doubled once per such
\* answer; a new attempt starts only for a new criterion or after one more
\* counted 429, and none starts after the fifth; the fifth 429 in a row is
\* recorded as 'Failed: Retries exhausted' and the batch goes on to the next
\* criterion; the batch comes to its end whatever the mailbox answers.
C15_RetryPolicy ==
    /\ [](pc \in {"while", "page", "after"} =>
             /\ current_retries \in 0..5
             /\ current_delay = 5 * TwoToThe(current_retries))
    /\ [][pc' = "while" =>
             \/ pc = "loop" /\ current_retries' = 0 /\ current_delay' = 5
             \/ /\ current_retries' = current_retries + 1
                /\ current_delay' = 2 * current_delay]_vars
    /\ [][(pc = "while" /\ current_retries >= 5) =>
             (pc' = "after" /\ calls' = calls /\ statuses' = statuses)]_vars
    /\ [][(pc = "after" /\ ~success /\ current_retries = 5) =>
             /\ statuses' = Append(statuses, "Failed: Retries exhausted for query: " \o query)
             /\ deleted_counts' = Append(deleted_counts, 0)
             /\ dry_run_counts' = Append(dry_run_counts, 0)
             /\ crit_i' = crit_i + 1
             /\ pc' = "loop"]_vars
    /\ <>(pc = "done")

\* The mailbox answered 429 throughout: both criteria were given up after
\* five attempts, the wait having grown from 5 to 160 seconds, and the
\* batch returned.
C15_Witness ==
    /\ pc = "done"
    /\ Len(arg.criteria) = 2
    /\ current_retries = 5
    /\ current_delay = 160
    /\ statuses = <<"Failed: Retries exhausted for query: is:unread from:*@s.co",
                    "Failed: Retries exhausted for query: is:unread from:*@s.co">>
    /\ \A c \in calls : c.op = "list"

\* C16: the three lists the batch returns hold one entry per criterion.
C16_OneOutcomePerCriterion ==
    ret.fn = "delete_emails_by_criteria" =>
        /\ Len(ret.statuses) = Len(arg.criteria)
        /\ Len(ret.deleted_counts) = Len(arg.criteria)
        /\ Len(ret.dry_run_counts) = Len(arg.criteria)

\* The messages of the mailbox that the query of the criterion finds.
Matching(c) ==
    {k \in 1..Len(Inbox) : Inbox[k].id \in mailbox /\ GmailMatches(Inbox[k], c)}

\* C26: in a dry run the batch makes no delete call and the mailbox keeps
\* every message; a criterion whose search came back with matches is
\* reported as 'Dry Run' with the number of its matches as the dry-run
\* count and no deleted count.
C26_DryRunDeletesNothing ==
    dry_run =>
        /\ mailbox = {Inbox[k].id : k \in 1..Len(Inbox)}
        /\ \A c \in calls : c.op = "list"
        /\ (pc = "after" /\ success /\ Matching(criterion) # {}) =>
               /\ statuses[Len(statuses)] = "Dry Run"
               /\ dry_run_counts[Len(dry_run_counts)] = Cardinality(Matching(criterion))
               /\ deleted_counts[Len(deleted_counts)] = EmptyCell

\* A dry run of two criteria, of two matches and of one, has returned.
C26_Witness ==
    /\ dry_run
    /\ ret.fn = "delete_emails_by_criteria"
    /\ arg.criteria = <<Criterion("", "s.co", "", ""), Criterion("", "s.co", "sale", "")>>
    /\ ret.statuses = <<"Dry Run", "Dry Run">>
    /\ ret.dry_run_counts = <<2, 1>>
    /\ ret.deleted_counts = <<EmptyCell, EmptyCell>>
    /\ mailbox = {"m1", "m2", "m3", "m4", "m5"}

\* The ids of the messages the query of the criterion finds, in the order
\* of the mailbox.
ExpectedIds ==
    LET found == SelectSeq(Inbox, LAMBDA m : m.id \in mailbox /\ GmailMatches(m, criterion))
    IN  [k \in 1..Len(found) |-> found[k].id]

\* C29: when the batch has gone through the pages of a result, message_ids
\* holds the id of every message of every page once, those of the last
\* page too, and the page loop is left only on a page that has no
\* nextPageToken.
C29_AllPagesCollected ==
    [][(pc = "page" /\ pc' = "after" /\ success') =>
           /\ "nextPageToken" \notin DOMAIN response
           /\ message_ids' = ExpectedIds]_vars

\* Three pages of one id each have been collected.
C29_Witness ==
    /\ pc = "after"
    /\ success
    /\ criterion = Criterion("", "", "", "otp")
    /\ message_ids = <<"m1", "m3", "m4">>
    /\ "nextPageToken" \notin DOMAIN response
    /\ response.messages = <<"m4">>

----------------------------------------------------------------------------
(* The subject classifier: claims checked under SpecClassify.              *)

\* The priority order the claims state, most urgent first.
PriorityOrder ==
    <<"SECURITY", "ALERT", "MEDICAL", "TRAVEL", "MORTGAGE", "ORDER", "RECEIPT",
      "STATEMENT", "NEWSLETTER", "PROMO">>

\* The keywords of a category that occur in the subject, compared without
\* regard to case and without regard to word boundaries, as list positions.
KeywordHits(cat_name, subject) ==
    IF ~Truthy(subject) THEN {}
    ELSE {k \in 1..Len(CATEGORIES[cat_name].keywords) :
            StrIn(lower(CATEGORIES[cat_name].keywords[k]), lower(subject))}

PresentCategories(subject) ==
    {p \in 1..Len(PriorityOrder) : KeywordHits(PriorityOrder[p], subject) # {}}

Classified == ret.fn = "classify_email"

\* C8: a subject with keywords of two or more categories is given the
\* category that comes first in the priority order, with a keyword of that
\* category that occurs in the subject, wherever the keywords stand in it.
C8_HigherPriorityWins ==
    (Classified /\ Cardinality(PresentCategories(arg.subject)) >= 2) =>
        LET present == PresentCategories(arg.subject)
            best == PriorityOrder[CHOOSE p \in present : \A o \in present : p <= o]
        IN  /\ ret.value.category = best
            /\ \E k \in KeywordHits(best, arg.subject) :
                   ret.value.matched_keyword = CATEGORIES[best].keywords[k]

\* A promotional keyword stands before the security keyword in the subject,
\* and the security category is still the one returned.
C8_Witness ==
    /\ Classified
    /\ arg.subject = "Flash SALE OTP"
    /\ ret.value.category = "SECURITY"
    /\ ret.value.matched_keyword = "otp"

\* C9: a subject with keywords of exactly one category is given that
\* category, and matched_keyword is the keyword as the list spells it, the
\* first in list order of those that occur.
C9_SingleCategoryFirstKeyword ==
    (Classified /\ Cardinality(PresentCategories(arg.subject)) = 1) =>
        LET only == PriorityOrder[CHOOSE p \in PresentCategories(arg.subject) : TRUE]
            hits == KeywordHits(only, arg.subject)
        IN  /\ ret.value.category = only
            /\ ret.value.matched_keyword =
                   CATEGORIES[only].keywords[CHOOSE k \in hits : \A h \in hits : k <= h]

\* 'offer' is found inside the longer word 'offerings'.
C9_Witness ==
    /\ Classified
    /\ arg.subject = "offerings"
    /\ ret.value.category = "PROMO"
    /\ ret.value.matched_keyword = "offer"

\* C10: the empty subject, the missing subject and every subject in which
\* no keyword of any category occurs are given UNKNOWN with no matched
\* keyword.
C10_FallbackUnknown ==
    (Classified /\ PresentCategories(arg.subject) = {}) =>
        /\ ret.value.category = "UNKNOWN"
        /\ ret.value.matched_keyword = None

\* The missing subject has been classified as UNKNOWN.
C10_Witness ==
    /\ Classified
    /\ arg.subject = None
    /\ ret.value.category = "UNKNOWN"
    /\ ret.value.matched_keyword = None

----------------------------------------------------------------------------
(* The delete-after-grace file and build_query: SpecRequest.               *)

\* The constraint Gmail reads as "older than so many days".
MinAgeConstraint(constraint) == StartsWith(constraint, "older_than:")

\* C21: the query built for a rule of the delete-after-grace file carries
\* the minimum-age constraint, so that no message younger than the
\* threshold is matched on account of such a rule.
C21_GraceQueryCarriesMinAge ==
    (ret.fn = "handled" /\ arg.fn = "add_criteria_1day" /\ resp.status = 200) =>
        \A k \in 1..Len(criteria_1d) :
            \E n \in 1..Len(Constraints(build_query(criteria_1d[k]))) :
                MinAgeConstraint(Constraints(build_query(criteria_1d[k]))[n])

----------------------------------------------------------------------------
(* get_stats: Spec.                                                        *)

\* C22: the counts that get_stats answers are the current numbers of rules
\* of criteria.json, of criteria_1day_old.json and of keep_criteria.json.
C22_StatsCountRules ==
    resp.op = "stats" =>
        /\ resp.criteria_count = Len(criteria)
        /\ resp.criteria_1day_count = Len(criteria_1d)
        /\ resp.keep_count = Len(keep_criteria)

----------------------------------------------------------------------------
(* group_emails_by_pattern: SpecGroup.                                     *)

\* The key of a cluster: (primaryDomain, category, subject[:50]).
GroupKey(pattern) == <<pattern.domain, pattern.category, pattern.subject_sample>>

\* Per key, the count and the set of member messages of a grouping.
CountAndMembers(grouped) ==
    {<<GroupKey(grouped[k]), grouped[k].count,
       {grouped[k].emails[n] : n \in 1..Len(grouped[k].emails)}>> :
        k \in 1..Len(grouped)}

\* C23: grouping a list and grouping the same emails in another order give
\* the same keys and, per key, the same count and the same set of members,
\* each key once.
C23_GroupingOrderIndependent ==
    ret.fn = "regrouped" =>
        /\ CountAndMembers(ret.grouped) = CountAndMembers(ret.regrouped)
        /\ Len(ret.grouped) = Len(ret.regrouped)
        /\ Cardinality({GroupKey(ret.grouped[k]) : k \in 1..Len(ret.grouped)})
               = Len(ret.grouped)

\* Three emails, two of one cluster with an email of another between them,
\* were grouped again in an order that puts the clusters the other way
\* round.
C23_Witness ==
    /\ ret.fn = "regrouped"
    /\ Len(arg.email_details) = 3
    /\ arg.reordered # arg.email_details
    /\ Len(ret.grouped) = 2
    /\ ret.grouped[1].count = 2
    /\ ret.grouped[1].emails[1].subject # ret.grouped[1].emails[2].subject
    /\ ret.grouped[1].emails[1].id = 1
    /\ ret.grouped[1].emails[2].id = 3
    /\ ret.regrouped[2].count = 2

----------------------------------------------------------------------------
(* mark_keep: Spec.                                                        *)

\* The rules of a file whose normalized (primaryDomain, subject) is that of
\* the entry.
SameRuleAs(file, entry) ==
    {k \in 1..Len(file) : SameNormalizedRule(file[k], entry)}

\* C24: after a successful mark-keep, keep_criteria.json holds exactly one
\* rule with the normalized domain and fragment of the request, however
\* often the request was made; when the fragment is empty, criteria.json
\* holds no rule of that domain any more.
C24_KeepAddsExactlyOne ==
    (resp.op = "mark-keep" /\ resp.status = 200) =>
        /\ Cardinality(SameRuleAs(keep_criteria, resp.entry)) = 1
        /\ resp.entry.subject = "" =>
               \A k \in 1..Len(criteria) :
                   Normalized(criteria[k].primaryDomain)
                       # Normalized(resp.entry.primaryDomain)

----------------------------------------------------------------------------
(* undo_last: SpecUndo.                                                    *)

\* The collection an undo-last request names: 1 criteria.json,
\* 2 criteria_1day_old.json, 3 keep_criteria.json.
NamedCollection(data) ==
    IF data.file_type \in {Missing, "criteria"} THEN 1
    ELSE IF data.file_type = "criteria_1d" THEN 2 ELSE 3

\* C25: undo-last removes the last rule of the collection it names and
\* leaves the other rules, the other collections and the keep log as they
\* were; an add that succeeded, undone on the same collection, gives the
\* collection back as it was before the add; on an empty collection the
\* answer is an error and nothing changes.
C25_UndoPopsNamedCollection ==
    (ret.fn = "undone" /\ arg.undo # NoBody) =>
        LET n     == NamedCollection(arg.undo)
            now   == <<criteria, criteria_1d, keep_criteria, keep_list>>
            found == ret.files
        IN  /\ IF found[n] = <<>>
               THEN resp.status = 400 /\ ~resp.success /\ now = found
               ELSE /\ resp.success
                    /\ now = [found EXCEPT ![n] = SubSeq(@, 1, Len(@) - 1)]
            /\ (ret.after_add /\ n = (IF arg.fn = "add_criteria" THEN 1 ELSE 2))
                   => now[n] = arg.before[n]

----------------------------------------------------------------------------
(* auto_add_promo_to_criteria run twice: SpecRerun.                        *)

\* C27: a second auto-populate on the same clusters adds no rule and
\* leaves criteria.json as the first one left it.
C27_RerunAddsNothing ==
    ret.fn = "rerun" =>
        /\ ret.added_again = 0
        /\ criteria = ret.first

\* The first run added two rules to a file that held one, the second none.
C27_Witness ==
    /\ ret.fn = "rerun"
    /\ ret.added = 2
    /\ ret.added_again = 0
    /\ Len(criteria) = 3
    /\ criteria[3].subject = "Sale "

----------------------------------------------------------------------------
(* update_results_to_sheet: SpecSheet.                                     *)

\* The place in the processed list of the criterion of data row i of the
\* sheet (row i + 1 of the values), 0 when that row was not processed.
ProcessedAt(i) ==
    LET row(k)  == RowCriterion(arg.values[1], arg.values[k + 1])
        kept(k) == AnyValue(row(k)) /\ FilterCriteria(<<row(k)>>, arg.filter) # <<>>
    IN  IF kept(i) THEN Cardinality({k \in 1..i : kept(k)}) ELSE 0

ResultColumns == {"Status", "Deleted Count", "Dry Run"}

\* C28: after update_results_to_sheet, the Status, Deleted Count and Dry
\* Run cells of every row whose criterion was processed hold the outcome
\* the batch returned for that criterion, those of the other rows are
\* empty, and the data cells of every row are as they were.
C28_ResultsWrittenToOwnRow ==
    ret.fn = "update_results_to_sheet" =>
        LET header == ret.values[1]
            col(name) == HeaderIndex(header, name)
        IN  \A i \in 1..(Len(arg.values) - 1) :
                LET before == arg.values[i + 1]
                    after  == ret.values[i + 1]
                    p      == ProcessedAt(i)
                IN  /\ after[col("Status")] =
                           (IF p # 0 THEN ret.results.statuses[p] ELSE "")
                    /\ after[col("Deleted Count")] =
                           (IF p # 0 THEN CellOf(ret.results.deleted_counts[p]) ELSE "")
                    /\ after[col("Dry Run")] =
                           (IF p # 0 THEN CellOf(ret.results.dry_run_counts[p]) ELSE "")
                    /\ \A j \in 1..Len(after) :
                           header[j] \notin ResultColumns =>
                               after[j] = (IF j <= Len(before) THEN before[j] ELSE "")

----------------------------------------------------------------------------
(* The auto-populate followed by the filter: SpecSender.                   *)

\* C30: after the auto-populate and the filter of one run, no cluster put
\* before the user has a category that is safe to delete automatically,
\* and the removed counter holds at least the members of the safe
\* clusters.
C30_NoSafeClusterSurfaced ==
    ret.fn = "filter_decided_emails" =>
        /\ \A k \in 1..Len(ret.filtered) :
               ret.filtered[k].category \notin SafeToAutoDelete
        /\ ret.removed_count >=
               SumCounts(SelectSeq(ret.grouped,
                                   LAMBDA p : p.category \in SafeToAutoDelete))

====
